---- MODULE Spec2Model ----
(***************************************************************************)
(* BlinkDB (src/blinkDB.cpp): an in-memory key-value store with string,    *)
(* list, set and hash values, an LRU recency tracker, a one-hash Bloom     *)
(* filter and a line-oriented command handler.                             *)
(*                                                                         *)
(* Text (std::string) is a sequence of one-character strings, so that      *)
(* size(), substr() and operator== are computed as the code computes them. *)
(***************************************************************************)
EXTENDS Integers, Sequences, FiniteSets, TLC

VARIABLES
    store,          \* BlinkDB::store: key -> value object (a partial map)
    cache,          \* LRUCache::cache: keys, most recently used first
    bloom_filter,   \* BloomFilter::filter: the set of bit positions that are set
    hasher,         \* std::hash<std::string>: fixed by the build, unknown to the program
    cmd,            \* process_command's cmd: the lower-cased name of the last command
    reply,          \* the response process_command returned for it
    persistence_file, \* the content of the file BlinkDB::persistence_file names
    pc,             \* where the process is: "start" before main constructs the
                    \* database, "serving" in the event loop, "stopped" after
                    \* ~BlinkDB, "terminated" after an exception nothing caught,
                    \* "hung" in a loop that does not end
    starts,         \* how many processes have constructed a database on the file
    sockets,        \* the kernel's side of each connection: what the client
                    \* has sent and the server has not read yet
    client_buffers, \* main's client_buffers: connection -> text read and not
                    \* yet cut into commands
    fd,             \* the connection whose readiness event main is handling,
                    \* 0 while it waits in epoll_wait
    handed,         \* per connection, the commands passed to process_command
    written         \* per connection, the responses written to it

transport == <<sockets, client_buffers, fd, handed, written>>

vars == <<store, cache, bloom_filter, hasher, cmd, reply, persistence_file, pc,
          starts, sockets, client_buffers, fd, handed, written>>

-----------------------------------------------------------------------------
(* Bounds and program constants *)

\* #define CACHE_SIZE 1000, scaled down so that an overflow needs three keys
CACHE_SIZE == 2

\* #define BLOOM_FILTER_SIZE 10000
BLOOM_FILTER_SIZE == 10000

\* the longest list a workload builds (LPUSH/RPUSH are not offered beyond it):
\* in the collection workload, in the key-space and value workloads, in the
\* list and range workloads
MaxLen == 2
ShortLen == 1
LongLen == 3

\* the number of processes a behaviour starts on the persistence file
MaxStarts == 2

-----------------------------------------------------------------------------
(* Text helpers *)

CRLF == <<"\r", "\n">>

Digits == <<"0", "1", "2", "3", "4", "5", "6", "7", "8", "9">>

RECURSIVE to_string(_)
to_string(n) ==
    IF n < 0 THEN <<"-">> \o to_string(-n)
    ELSE IF n < 10 THEN <<Digits[n + 1]>>
    ELSE to_string(n \div 10) \o <<Digits[(n % 10) + 1]>>

Min(a, b) == IF a < b THEN a ELSE b
Max(a, b) == IF a > b THEN a ELSE b

\* std::string::substr(pos, n) with pos <= size(): at most n characters from pos
substr(s, pos, n) == SubSeq(s, pos + 1, Min(pos + n, Len(s)))

Range(s) == {s[i] : i \in 1..Len(s)}

\* the sentinel texts the database layer returns in-band
NULL_TEXT == <<"N","U","L","L">>
WRONGTYPE == <<"W","R","O","N","G","T","Y","P","E">>
WRONGTYPE_MSG ==
    <<"W","R","O","N","G","T","Y","P","E"," ","O","p","e","r","a","t","i","o","n",
      " ","a","g","a","i","n","s","t"," ","a"," ","k","e","y"," ","h","o","l","d",
      "i","n","g"," ","t","h","e"," ","w","r","o","n","g"," ","k","i","n","d"," ",
      "o","f"," ","v","a","l","u","e">>
EMPTY_ARRAY == <<"*", "0">> \o CRLF

-----------------------------------------------------------------------------
(* Wire encodings used by process_command *)

SimpleString(s) == <<"+">> \o s \o CRLF
Integer(s)      == <<":">> \o s \o CRLF
Bulk(s)         == <<"$">> \o to_string(Len(s)) \o CRLF \o s \o CRLF
NullBulk        == <<"$", "-", "1">> \o CRLF
Error(s)        == <<"-">> \o s \o CRLF

RECURSIVE BulkItems(_)
BulkItems(items) ==
    IF items = <<>> THEN <<>>
    ELSE <<"$">> \o to_string(Len(Head(items))) \o CRLF \o Head(items) \o CRLF
         \o BulkItems(Tail(items))

\* "*" + count + "\r\n" followed by one bulk string per item
Array(items) == <<"*">> \o to_string(Len(items)) \o CRLF \o BulkItems(items)

-----------------------------------------------------------------------------
(* Value objects *)

StringType(value) == [type |-> "STRING", value |-> value]
ListType(elements) == [type |-> "LIST", elements |-> elements]
SetType(members) == [type |-> "SET", members |-> members]
HashType(fields) == [type |-> "HASH", fields |-> fields]

\* std::unordered_map: find, operator[]=, erase
Has(m, key) == key \in DOMAIN m
Put(m, key, val) == [k \in DOMAIN m \cup {key} |-> IF k = key THEN val ELSE m[k]]
Erase(m, key) == [k \in DOMAIN m \ {key} |-> m[k]]

-----------------------------------------------------------------------------
(* ListType *)

list_lpush(elements, value) == <<value>> \o elements
list_rpush(elements, value) == Append(elements, value)

\* returns "" on an empty list
list_lpop(elements) ==
    IF elements = <<>> THEN [value |-> <<>>, elements |-> elements]
    ELSE [value |-> Head(elements), elements |-> Tail(elements)]

list_rpop(elements) ==
    IF elements = <<>> THEN [value |-> <<>>, elements |-> elements]
    ELSE [value |-> elements[Len(elements)],
          elements |-> SubSeq(elements, 1, Len(elements) - 1)]

list_lindex(elements, index) ==
    LET i == IF index < 0 THEN Len(elements) + index ELSE index
    IN IF i < 0 \/ i >= Len(elements) THEN <<>> ELSE elements[i + 1]

\* an lrange that pulls both bounds into [0, size - 1]
list_lrange_clamps_both(elements, start, end) ==
    IF elements = <<>> THEN <<>>
    ELSE LET s1 == IF start < 0 THEN Len(elements) + start ELSE start
             e1 == IF end < 0 THEN Len(elements) + end ELSE end
             s2 == Max(0, Min(Len(elements) - 1, s1))
             e2 == Max(0, Min(Len(elements) - 1, e1))
         IN IF s2 > e2 THEN <<>> ELSE SubSeq(elements, s2 + 1, e2 + 1)

list_lrange(elements, start, end) ==
    IF elements = <<>> THEN <<>>
    ELSE LET s1 == IF start < 0 THEN Len(elements) + start ELSE start
             e1 == IF end < 0 THEN Len(elements) + end ELSE end
             s2 == Max(0, s1)
             e2 == Min(Len(elements) - 1, e1)
         IN IF s2 > e2 THEN <<>> ELSE SubSeq(elements, s2 + 1, e2 + 1)

-----------------------------------------------------------------------------
(* LRUCache: the list `cache`; `map` indexes exactly the keys of the list *)

max_size == CACHE_SIZE

remove(c, key) == SelectSeq(c, LAMBDA x : x # key)

\* an access that leaves the bound to evict_if_needed (not what the code does)
access_unbounded(c, key) == <<key>> \o remove(c, key)

access(c, key) ==
    LET c1 == <<key>> \o remove(c, key)
    IN IF Len(c1) > max_size THEN SubSeq(c1, 1, Len(c1) - 1) ELSE c1

contains(c, key) == key \in Range(c)

get_oldest(c) == c[Len(c)]

-----------------------------------------------------------------------------
(* BloomFilter *)

hash(key) == hasher[key] % BLOOM_FILTER_SIZE

\* a bloom_add that sets no bit (not what the code does)
bloom_add_nothing(filter, key) == filter

bloom_add(filter, key) == filter \cup {hash(key)}

bloom_contains(filter, key) == hash(key) \in filter

-----------------------------------------------------------------------------
(* BlinkDB.  Every method is an operator on the current state that yields   *)
(* the returned text and the state the method leaves behind.                *)

Result(ret, s, c, b) == [ret |-> ret, store |-> s, cache |-> c, bloom_filter |-> b]

evict_if_needed(s, c) ==
    IF Len(c) > CACHE_SIZE
    THEN LET oldest_key == get_oldest(c)
         IN [store |-> Erase(s, oldest_key), cache |-> remove(c, oldest_key)]
    ELSE [store |-> s, cache |-> c]

set(key, value) ==
    LET s1 == Put(store, key, StringType(value))
        c1 == access(cache, key)
        ev == evict_if_needed(s1, c1)
    IN Result(<<>>, ev.store, ev.cache, bloom_add(bloom_filter, key))

get(key) ==
    IF ~bloom_contains(bloom_filter, key) \/ ~Has(store, key)
    THEN Result(NULL_TEXT, store, cache, bloom_filter)
    ELSE LET c1 == access(cache, key)
         IN IF store[key].type = "STRING"
            THEN Result(store[key].value, store, c1, bloom_filter)
            ELSE Result(WRONGTYPE_MSG, store, c1, bloom_filter)

\* a del that forgets cache.remove(key)
del_keeps_tracker(key) == Result(<<>>, Erase(store, key), cache, bloom_filter)

\* a del that also clears the key's filter bit (not what the code does)
del_clears_filter(key) ==
    Result(<<>>, Erase(store, key), remove(cache, key), bloom_filter \ {hash(key)})

del(key) == Result(<<>>, Erase(store, key), remove(cache, key), bloom_filter)

type(key) ==
    IF ~bloom_contains(bloom_filter, key) \/ ~Has(store, key)
    THEN Result(<<"n","o","n","e">>, store, cache, bloom_filter)
    ELSE Result(CASE store[key].type = "STRING" -> <<"s","t","r","i","n","g">>
                  [] store[key].type = "LIST" -> <<"l","i","s","t">>
                  [] store[key].type = "SET" -> <<"s","e","t">>
                  [] store[key].type = "HASH" -> <<"h","a","s","h">>,
                store, cache, bloom_filter)

(* List operations *)

\* a create_list_if_needed that replaces a value of another kind by an empty list
create_list_coerces(key) ==
    IF ~Has(store, key) \/ store[key].type # "LIST"
    THEN [ok |-> TRUE, store |-> Put(store, key, ListType(<<>>)),
          bloom_filter |-> bloom_add(bloom_filter, key)]
    ELSE [ok |-> TRUE, store |-> store, bloom_filter |-> bloom_filter]

create_list_if_needed(key) ==
    IF ~Has(store, key)
    THEN [ok |-> TRUE, store |-> Put(store, key, ListType(<<>>)),
          bloom_filter |-> bloom_add(bloom_filter, key)]
    ELSE IF store[key].type # "LIST"
    THEN [ok |-> FALSE, store |-> store, bloom_filter |-> bloom_filter]
    ELSE [ok |-> TRUE, store |-> store, bloom_filter |-> bloom_filter]

lpush(key, value) ==
    LET cr == create_list_if_needed(key)
    IN IF ~cr.ok THEN Result(WRONGTYPE_MSG, store, cache, bloom_filter)
       ELSE LET elements == list_lpush(cr.store[key].elements, value)
                s1 == Put(cr.store, key, ListType(elements))
                c1 == access(cache, key)
                ev == evict_if_needed(s1, c1)
            IN Result(to_string(Len(elements)), ev.store, ev.cache, cr.bloom_filter)

rpush(key, value) ==
    LET cr == create_list_if_needed(key)
    IN IF ~cr.ok THEN Result(WRONGTYPE_MSG, store, cache, bloom_filter)
       ELSE LET elements == list_rpush(cr.store[key].elements, value)
                s1 == Put(cr.store, key, ListType(elements))
                c1 == access(cache, key)
                ev == evict_if_needed(s1, c1)
            IN Result(to_string(Len(elements)), ev.store, ev.cache, cr.bloom_filter)

\* an lpop that leaves the emptied list in the store
lpop_keeps_empty_list(key) ==
    IF ~Has(store, key) THEN Result(NULL_TEXT, store, cache, bloom_filter)
    ELSE IF store[key].type # "LIST"
    THEN Result(WRONGTYPE_MSG, store, cache, bloom_filter)
    ELSE LET p == list_lpop(store[key].elements)
         IN Result(IF p.value = <<>> THEN NULL_TEXT ELSE p.value,
                   Put(store, key, ListType(p.elements)), access(cache, key),
                   bloom_filter)

lpop(key) ==
    IF ~Has(store, key) THEN Result(NULL_TEXT, store, cache, bloom_filter)
    ELSE IF store[key].type # "LIST"
    THEN Result(WRONGTYPE_MSG, store, cache, bloom_filter)
    ELSE LET p == list_lpop(store[key].elements)
             c1 == access(cache, key)
             result == IF p.value = <<>> THEN NULL_TEXT ELSE p.value
         IN IF Len(p.elements) = 0
            THEN Result(result, Erase(store, key), remove(c1, key), bloom_filter)
            ELSE Result(result, Put(store, key, ListType(p.elements)), c1, bloom_filter)

rpop(key) ==
    IF ~Has(store, key) THEN Result(NULL_TEXT, store, cache, bloom_filter)
    ELSE IF store[key].type # "LIST"
    THEN Result(WRONGTYPE_MSG, store, cache, bloom_filter)
    ELSE LET p == list_rpop(store[key].elements)
             c1 == access(cache, key)
             result == IF p.value = <<>> THEN NULL_TEXT ELSE p.value
         IN IF Len(p.elements) = 0
            THEN Result(result, Erase(store, key), remove(c1, key), bloom_filter)
            ELSE Result(result, Put(store, key, ListType(p.elements)), c1, bloom_filter)

lindex(key, index) ==
    IF ~Has(store, key) THEN Result(NULL_TEXT, store, cache, bloom_filter)
    ELSE IF store[key].type # "LIST"
    THEN Result(WRONGTYPE_MSG, store, cache, bloom_filter)
    ELSE LET result == list_lindex(store[key].elements, index)
         IN Result(IF result = <<>> THEN NULL_TEXT ELSE result,
                   store, access(cache, key), bloom_filter)

llen(key) ==
    IF ~Has(store, key) THEN Result(<<"0">>, store, cache, bloom_filter)
    ELSE IF store[key].type # "LIST"
    THEN Result(WRONGTYPE_MSG, store, cache, bloom_filter)
    ELSE Result(to_string(Len(store[key].elements)),
                store, access(cache, key), bloom_filter)

lrange(key, start, end) ==
    IF ~Has(store, key) THEN Result(EMPTY_ARRAY, store, cache, bloom_filter)
    ELSE IF store[key].type # "LIST"
    THEN Result(WRONGTYPE_MSG, store, cache, bloom_filter)
    ELSE Result(Array(list_lrange(store[key].elements, start, end)),
                store, access(cache, key), bloom_filter)

(* Set operations *)

\* a create_set_if_needed that replaces a value of another kind by an empty set
create_set_coerces(key) ==
    IF ~Has(store, key) \/ store[key].type # "SET"
    THEN [ok |-> TRUE, store |-> Put(store, key, SetType({})),
          bloom_filter |-> bloom_add(bloom_filter, key)]
    ELSE [ok |-> TRUE, store |-> store, bloom_filter |-> bloom_filter]

create_set_if_needed(key) ==
    IF ~Has(store, key)
    THEN [ok |-> TRUE, store |-> Put(store, key, SetType({})),
          bloom_filter |-> bloom_add(bloom_filter, key)]
    ELSE IF store[key].type # "SET"
    THEN [ok |-> FALSE, store |-> store, bloom_filter |-> bloom_filter]
    ELSE [ok |-> TRUE, store |-> store, bloom_filter |-> bloom_filter]

sadd(key, value) ==
    LET cr == create_set_if_needed(key)
    IN IF ~cr.ok THEN Result(WRONGTYPE_MSG, store, cache, bloom_filter)
       ELSE LET added == value \notin cr.store[key].members
                s1 == Put(cr.store, key, SetType(cr.store[key].members \cup {value}))
                c1 == access(cache, key)
                ev == evict_if_needed(s1, c1)
            IN Result(IF added THEN <<"1">> ELSE <<"0">>,
                      ev.store, ev.cache, cr.bloom_filter)

sismember(key, value) ==
    IF ~Has(store, key) THEN Result(<<"0">>, store, cache, bloom_filter)
    ELSE IF store[key].type # "SET"
    THEN Result(WRONGTYPE_MSG, store, cache, bloom_filter)
    ELSE Result(IF value \in store[key].members THEN <<"1">> ELSE <<"0">>,
                store, access(cache, key), bloom_filter)

\* an srem that replies as srem does and leaves the member in (not what the
\* code does)
srem_keeps_member(key, value) ==
    IF ~Has(store, key) THEN Result(<<"0">>, store, cache, bloom_filter)
    ELSE IF store[key].type # "SET"
    THEN Result(WRONGTYPE_MSG, store, cache, bloom_filter)
    ELSE Result(IF value \in store[key].members THEN <<"1">> ELSE <<"0">>,
                store, access(cache, key), bloom_filter)

srem(key, value) ==
    IF ~Has(store, key) THEN Result(<<"0">>, store, cache, bloom_filter)
    ELSE IF store[key].type # "SET"
    THEN Result(WRONGTYPE_MSG, store, cache, bloom_filter)
    ELSE LET removed == value \in store[key].members
             members == store[key].members \ {value}
             c1 == access(cache, key)
             result == IF removed THEN <<"1">> ELSE <<"0">>
         IN IF Cardinality(members) = 0
            THEN Result(result, Erase(store, key), remove(c1, key), bloom_filter)
            ELSE Result(result, Put(store, key, SetType(members)), c1, bloom_filter)

scard(key) ==
    IF ~Has(store, key) THEN Result(<<"0">>, store, cache, bloom_filter)
    ELSE IF store[key].type # "SET"
    THEN Result(WRONGTYPE_MSG, store, cache, bloom_filter)
    ELSE Result(to_string(Cardinality(store[key].members)),
                store, access(cache, key), bloom_filter)

\* `order` is the iteration order of the unordered_set, which the program
\* does not control: a sequence that lists every member once
smembers(key, order) ==
    IF ~Has(store, key) THEN Result(EMPTY_ARRAY, store, cache, bloom_filter)
    ELSE IF store[key].type # "SET"
    THEN Result(WRONGTYPE_MSG, store, cache, bloom_filter)
    ELSE Result(Array(order), store, access(cache, key), bloom_filter)

(* Hash operations *)

create_hash_if_needed(key) ==
    IF ~Has(store, key)
    THEN [ok |-> TRUE, store |-> Put(store, key, HashType(<<>>)),
          bloom_filter |-> bloom_add(bloom_filter, key)]
    ELSE IF store[key].type # "HASH"
    THEN [ok |-> FALSE, store |-> store, bloom_filter |-> bloom_filter]
    ELSE [ok |-> TRUE, store |-> store, bloom_filter |-> bloom_filter]

hset(key, field, value) ==
    LET cr == create_hash_if_needed(key)
    IN IF ~cr.ok THEN Result(WRONGTYPE_MSG, store, cache, bloom_filter)
       ELSE LET added == ~Has(cr.store[key].fields, field)
                s1 == Put(cr.store, key,
                          HashType(Put(cr.store[key].fields, field, value)))
                c1 == access(cache, key)
                ev == evict_if_needed(s1, c1)
            IN Result(IF added THEN <<"1">> ELSE <<"0">>,
                      ev.store, ev.cache, cr.bloom_filter)

hget(key, field) ==
    IF ~Has(store, key) THEN Result(NULL_TEXT, store, cache, bloom_filter)
    ELSE IF store[key].type # "HASH"
    THEN Result(WRONGTYPE_MSG, store, cache, bloom_filter)
    ELSE LET result == IF Has(store[key].fields, field)
                       THEN store[key].fields[field] ELSE <<>>
         IN Result(IF result = <<>> THEN NULL_TEXT ELSE result,
                   store, access(cache, key), bloom_filter)

hexists(key, field) ==
    IF ~Has(store, key) THEN Result(<<"0">>, store, cache, bloom_filter)
    ELSE IF store[key].type # "HASH"
    THEN Result(WRONGTYPE_MSG, store, cache, bloom_filter)
    ELSE Result(IF Has(store[key].fields, field) THEN <<"1">> ELSE <<"0">>,
                store, access(cache, key), bloom_filter)

\* an hdel that erases the emptied hash from the store and leaves its
\* tracker entry (not what the code does)
hdel_keeps_tracker(key, field) ==
    IF ~Has(store, key) THEN Result(<<"0">>, store, cache, bloom_filter)
    ELSE IF store[key].type # "HASH"
    THEN Result(WRONGTYPE_MSG, store, cache, bloom_filter)
    ELSE LET removed == Has(store[key].fields, field)
             fields == Erase(store[key].fields, field)
             c1 == access(cache, key)
             result == IF removed THEN <<"1">> ELSE <<"0">>
         IN IF Cardinality(DOMAIN fields) = 0
            THEN Result(result, Erase(store, key), c1, bloom_filter)
            ELSE Result(result, Put(store, key, HashType(fields)), c1, bloom_filter)

hdel(key, field) ==
    IF ~Has(store, key) THEN Result(<<"0">>, store, cache, bloom_filter)
    ELSE IF store[key].type # "HASH"
    THEN Result(WRONGTYPE_MSG, store, cache, bloom_filter)
    ELSE LET removed == Has(store[key].fields, field)
             fields == Erase(store[key].fields, field)
             c1 == access(cache, key)
             result == IF removed THEN <<"1">> ELSE <<"0">>
         IN IF Cardinality(DOMAIN fields) = 0
            THEN Result(result, Erase(store, key), remove(c1, key), bloom_filter)
            ELSE Result(result, Put(store, key, HashType(fields)), c1, bloom_filter)

hlen(key) ==
    IF ~Has(store, key) THEN Result(<<"0">>, store, cache, bloom_filter)
    ELSE IF store[key].type # "HASH"
    THEN Result(WRONGTYPE_MSG, store, cache, bloom_filter)
    ELSE Result(to_string(Cardinality(DOMAIN store[key].fields)),
                store, access(cache, key), bloom_filter)

\* `order` is the iteration order of the unordered_map: every field once
hkeys(key, order) ==
    IF ~Has(store, key) THEN Result(EMPTY_ARRAY, store, cache, bloom_filter)
    ELSE IF store[key].type # "HASH"
    THEN Result(WRONGTYPE_MSG, store, cache, bloom_filter)
    ELSE Result(Array(order), store, access(cache, key), bloom_filter)

hvals(key, order) ==
    IF ~Has(store, key) THEN Result(EMPTY_ARRAY, store, cache, bloom_filter)
    ELSE IF store[key].type # "HASH"
    THEN Result(WRONGTYPE_MSG, store, cache, bloom_filter)
    ELSE Result(Array([i \in 1..Len(order) |-> store[key].fields[order[i]]]),
                store, access(cache, key), bloom_filter)

hgetall(key, order) ==
    IF ~Has(store, key) THEN Result(EMPTY_ARRAY, store, cache, bloom_filter)
    ELSE IF store[key].type # "HASH"
    THEN Result(WRONGTYPE_MSG, store, cache, bloom_filter)
    ELSE Result(Array([i \in 1..(2 * Len(order)) |->
                          IF i % 2 = 1 THEN order[(i + 1) \div 2]
                          ELSE store[key].fields[order[i \div 2]]]),
                store, access(cache, key), bloom_filter)

-----------------------------------------------------------------------------
(* Request tokens.                                                          *)

\* the command names process_command compares the lower-cased token with
cmd_set       == <<"s","e","t">>
cmd_get       == <<"g","e","t">>
cmd_del       == <<"d","e","l">>
cmd_type      == <<"t","y","p","e">>
cmd_lpush     == <<"l","p","u","s","h">>
cmd_rpush     == <<"r","p","u","s","h">>
cmd_lpop      == <<"l","p","o","p">>
cmd_rpop      == <<"r","p","o","p">>
cmd_lindex    == <<"l","i","n","d","e","x">>
cmd_llen      == <<"l","l","e","n">>
cmd_lrange    == <<"l","r","a","n","g","e">>
cmd_sadd      == <<"s","a","d","d">>
cmd_sismember == <<"s","i","s","m","e","m","b","e","r">>
cmd_srem      == <<"s","r","e","m">>
cmd_scard     == <<"s","c","a","r","d">>
cmd_smembers  == <<"s","m","e","m","b","e","r","s">>
cmd_hset      == <<"h","s","e","t">>
cmd_hget      == <<"h","g","e","t">>
cmd_hexists   == <<"h","e","x","i","s","t","s">>
cmd_hdel      == <<"h","d","e","l">>
cmd_hlen      == <<"h","l","e","n">>
cmd_hkeys     == <<"h","k","e","y","s">>
cmd_hvals     == <<"h","v","a","l","s">>
cmd_hgetall   == <<"h","g","e","t","a","l","l">>
cmd_ping      == <<"p","i","n","g">>

UpperCase == <<"A","B","C","D","E","F","G","H","I","J","K","L","M",
               "N","O","P","Q","R","S","T","U","V","W","X","Y","Z">>
LowerCase == <<"a","b","c","d","e","f","g","h","i","j","k","l","m",
               "n","o","p","q","r","s","t","u","v","w","x","y","z">>

LowerOf == [c \in Range(UpperCase) |->
               LowerCase[CHOOSE j \in 1..26 : UpperCase[j] = c]]

\* the command names as clients send them, in upper case
Sent == [name \in {cmd_set, cmd_get, cmd_del, cmd_type, cmd_lpush, cmd_rpush,
                   cmd_lpop, cmd_rpop, cmd_lindex, cmd_llen, cmd_lrange,
                   cmd_sadd, cmd_sismember, cmd_srem, cmd_scard, cmd_smembers,
                   cmd_hset, cmd_hget, cmd_hexists, cmd_hdel, cmd_hlen,
                   cmd_hkeys, cmd_hvals, cmd_hgetall, cmd_ping} |->
            [i \in 1..Len(name) |->
                UpperCase[CHOOSE j \in 1..26 : LowerCase[j] = name[i]]]]

\* a tolower that keeps the case (not what the code does)
tolower_keeps_case(s) == s

\* std::transform(cmd.begin(), cmd.end(), cmd.begin(), ::tolower)
tolower(s) ==
    [i \in 1..Len(s) |-> IF s[i] \in DOMAIN LowerOf THEN LowerOf[s[i]] ELSE s[i]]

\* the largest value of the int that std::stoi returns
INT_MAX == 2147483647

\* std::stoi on a token (a token holds no whitespace): an optional sign, then
\* the longest run of digits; no digit at all or a value outside int throws
DigitsPrefix(s) ==
    LET stop == {i \in 1..Len(s) : s[i] \notin Range(Digits)}
    IN IF stop = {} THEN s
       ELSE SubSeq(s, 1, (CHOOSE i \in stop : \A j \in stop : i <= j) - 1)

RECURSIVE DigitsValue(_)
DigitsValue(s) ==
    IF s = <<>> THEN 0
    ELSE 10 * DigitsValue(SubSeq(s, 1, Len(s) - 1))
         + (CHOOSE d \in 0..9 : Digits[d + 1] = s[Len(s)])

\* the text after the leading whitespace std::stoi skips
RECURSIVE SkipSpace(_)
SkipSpace(s) ==
    IF s # <<>> /\ s[1] \in {" ", "\t", "\n", "\r"} THEN SkipSpace(Tail(s)) ELSE s

stoi(str) ==
    LET s == SkipSpace(str)
        signed == s # <<>> /\ s[1] \in {"-", "+"}
        digits == DigitsPrefix(IF signed THEN Tail(s) ELSE s)
        value  == IF signed /\ s[1] = "-" THEN -DigitsValue(digits)
                  ELSE DigitsValue(digits)
    IN IF digits = <<>> \/ value > INT_MAX \/ value < -INT_MAX - 1
       THEN [ok |-> FALSE, value |-> 0]
       ELSE [ok |-> TRUE, value |-> value]

\* e.what() of the exception std::stoi throws (libstdc++)
stoi_what == <<"s","t","o","i">>

-----------------------------------------------------------------------------
(* CommandHandler::process_command *)

\* the database call returned `result` (the text and the state it leaves);
\* the handler answers with the encoding of the text
Apply(name, result, Encode(_)) ==
    \E r \in {result} :
        /\ pc = "serving"
        /\ cmd' = name
        /\ store' = r.store
        /\ cache' = r.cache
        /\ bloom_filter' = r.bloom_filter
        /\ reply' = Encode(r.ret)
        /\ UNCHANGED <<hasher, persistence_file, pc, starts>>

\* the handler answers `response` without calling the database
Respond(name, response) ==
    /\ pc = "serving"
    /\ cmd' = name
    /\ reply' = response
    /\ UNCHANGED <<store, cache, bloom_filter, hasher, persistence_file, pc, starts>>

IsWrongType(result) == substr(result, 0, 9) = WRONGTYPE

\* result == "NULL" -> null bulk; WRONGTYPE prefix -> error; else bulk string
EncodeBulk(result) ==
    IF result = NULL_TEXT THEN NullBulk
    ELSE IF IsWrongType(result) THEN Error(result)
    ELSE Bulk(result)

\* WRONGTYPE prefix -> error; else integer
EncodeInteger(result) ==
    IF IsWrongType(result) THEN Error(result) ELSE Integer(result)

\* WRONGTYPE prefix -> error; else the array the database layer built
EncodeArray(result) ==
    IF IsWrongType(result) THEN Error(result) ELSE result

\* what the handler answers to GET key and to TYPE key in the current state
GetReply(key)  == EncodeBulk(get(key).ret)
TypeReply(key) == SimpleString(type(key).ret)

Orderings(S) == {o \in [1..Cardinality(S) -> S] : Range(o) = S}

MembersOf(key) ==
    IF Has(store, key) /\ store[key].type = "SET" THEN store[key].members ELSE {}

FieldsOf(key) ==
    IF Has(store, key) /\ store[key].type = "HASH"
    THEN DOMAIN store[key].fields ELSE {}

ExceptionReply(what) == Error(<<"E","R","R"," ">> \o what)

process_command(parts) ==
    IF parts = <<>>
    THEN Respond(<<>>, Error(<<"E","R","R"," ","e","m","p","t","y"," ",
                               "c","o","m","m","a","n","d">>))
    ELSE
    \E name \in {tolower(parts[1])}, n \in {Len(parts)} :
    IF name = cmd_set /\ n >= 3
    THEN Apply(name, set(parts[2], parts[3]), LAMBDA ret : SimpleString(<<"O","K">>))
    ELSE IF name = cmd_get /\ n >= 2
    THEN Apply(name, get(parts[2]), EncodeBulk)
    ELSE IF name = cmd_del /\ n >= 2
    THEN Apply(name, del(parts[2]), LAMBDA ret : Integer(<<"1">>))
    ELSE IF name = cmd_type /\ n >= 2
    THEN Apply(name, type(parts[2]), SimpleString)
    ELSE IF name = cmd_lpush /\ n >= 3
    THEN Apply(name, lpush(parts[2], parts[3]), EncodeInteger)
    ELSE IF name = cmd_rpush /\ n >= 3
    THEN Apply(name, rpush(parts[2], parts[3]), EncodeInteger)
    ELSE IF name = cmd_lpop /\ n >= 2
    THEN Apply(name, lpop(parts[2]), EncodeBulk)
    ELSE IF name = cmd_rpop /\ n >= 2
    THEN Apply(name, rpop(parts[2]), EncodeBulk)
    ELSE IF name = cmd_lindex /\ n >= 3
    THEN \E index \in {stoi(parts[3])} :
            IF ~index.ok THEN Respond(name, ExceptionReply(stoi_what))
            ELSE Apply(name, lindex(parts[2], index.value), EncodeBulk)
    ELSE IF name = cmd_llen /\ n >= 2
    THEN Apply(name, llen(parts[2]), EncodeInteger)
    ELSE IF name = cmd_lrange /\ n >= 4
    THEN \E start \in {stoi(parts[3])}, end \in {stoi(parts[4])} :
            IF ~start.ok \/ ~end.ok THEN Respond(name, ExceptionReply(stoi_what))
            ELSE Apply(name, lrange(parts[2], start.value, end.value), EncodeArray)
    ELSE IF name = cmd_sadd /\ n >= 3
    THEN Apply(name, sadd(parts[2], parts[3]), EncodeInteger)
    ELSE IF name = cmd_sismember /\ n >= 3
    THEN Apply(name, sismember(parts[2], parts[3]), EncodeInteger)
    ELSE IF name = cmd_srem /\ n >= 3
    THEN Apply(name, srem(parts[2], parts[3]), EncodeInteger)
    ELSE IF name = cmd_scard /\ n >= 2
    THEN Apply(name, scard(parts[2]), EncodeInteger)
    ELSE IF name = cmd_smembers /\ n >= 2
    THEN \E order \in Orderings(MembersOf(parts[2])) :
            Apply(name, smembers(parts[2], order), EncodeArray)
    ELSE IF name = cmd_hset /\ n >= 4
    THEN Apply(name, hset(parts[2], parts[3], parts[4]), EncodeInteger)
    ELSE IF name = cmd_hget /\ n >= 3
    THEN Apply(name, hget(parts[2], parts[3]), EncodeBulk)
    ELSE IF name = cmd_hexists /\ n >= 3
    THEN Apply(name, hexists(parts[2], parts[3]), EncodeInteger)
    ELSE IF name = cmd_hdel /\ n >= 3
    THEN Apply(name, hdel(parts[2], parts[3]), EncodeInteger)
    ELSE IF name = cmd_hlen /\ n >= 2
    THEN Apply(name, hlen(parts[2]), EncodeInteger)
    ELSE IF name = cmd_hkeys /\ n >= 2
    THEN \E order \in Orderings(FieldsOf(parts[2])) :
            Apply(name, hkeys(parts[2], order), EncodeArray)
    ELSE IF name = cmd_hvals /\ n >= 2
    THEN \E order \in Orderings(FieldsOf(parts[2])) :
            Apply(name, hvals(parts[2], order), EncodeArray)
    ELSE IF name = cmd_hgetall /\ n >= 2
    THEN \E order \in Orderings(FieldsOf(parts[2])) :
            Apply(name, hgetall(parts[2], order), EncodeArray)
    ELSE IF name = cmd_ping
    THEN Respond(name, SimpleString(<<"P","O","N","G">>))
    ELSE Respond(name, Error(<<"E","R","R"," ","u","n","k","n","o","w","n"," ",
                               "c","o","m","m","a","n","d"," ","'">>
                             \o name \o <<"'">>))

-----------------------------------------------------------------------------
(* Persistence: serialize, deserialize, save_to_disk, load_from_disk.        *)
(* Positions are counted from 0 as std::string counts them.                  *)

\* std::string::npos: converted back from size_t it is below every position
npos == -1

\* s.find(ch, pos): a position below 0 stands for a size_t that wrapped around
find(s, ch, pos) ==
    LET hits == {i \in 0..(Len(s) - 1) : i >= pos /\ s[i + 1] = ch}
    IN IF pos < 0 \/ hits = {} THEN npos
       ELSE CHOOSE i \in hits : \A j \in hits : i <= j

\* s.substr(pos)
substr_from(s, pos) == SubSeq(s, pos + 1, Len(s))

\* s.substr(pos, len) with an int len: a negative len converts to a size_t
\* beyond every length
substr_int(s, pos, len) ==
    IF len < 0 THEN substr_from(s, pos) ELSE substr(s, pos, len)

RECURSIVE Join(_)
Join(pieces) ==
    IF pieces = <<>> THEN <<>> ELSE Head(pieces) \o Join(Tail(pieces))

\* size ":" element ","
Item(element) == to_string(Len(element)) \o <<":">> \o element \o <<",">>

list_serialize(elements) ==
    <<"L">> \o Join([i \in 1..Len(elements) |-> Item(elements[i])])

\* the members in the order the unordered_set iterates them
set_serialize(order) ==
    <<"S">> \o Join([i \in 1..Len(order) |-> Item(order[i])])

\* the fields in the order the unordered_map iterates them
hash_serialize(fields, order) ==
    <<"H">> \o Join([i \in 1..Len(order) |->
                      to_string(Len(order[i])) \o <<":">> \o order[i] \o <<":">>
                      \o Item(fields[order[i]])])

\* every text value->serialize() can return
Serializations(val) ==
    CASE val.type = "STRING" -> {val.value}
      [] val.type = "LIST" -> {list_serialize(val.elements)}
      [] val.type = "SET" -> {set_serialize(o) : o \in Orderings(val.members)}
      [] val.type = "HASH" ->
            {hash_serialize(val.fields, o) : o \in Orderings(DOMAIN val.fields)}

type_char(val) ==
    CASE val.type = "STRING" -> "S"
      [] val.type = "LIST" -> "L"
      [] val.type = "SET" -> "E"
      [] val.type = "HASH" -> "H"

\* every content save_to_disk can write: one line per key, the keys in the
\* order the unordered_map iterates them
save_to_disk(s) ==
    {[exists |-> TRUE,
      lines |-> [i \in 1..Len(order) |->
                   <<type_char(s[order[i]]), " ">> \o order[i] \o <<" ">>
                   \o data[order[i]]]] :
        order \in Orderings(DOMAIN s),
        data \in {d \in [DOMAIN s -> UNION {Serializations(s[k]) : k \in DOMAIN s}] :
                    \A k \in DOMAIN s : d[k] \in Serializations(s[k])}}

\* what a deserialize or a load comes to: it returns, it throws the exception
\* of std::stoi, or its loop never ends
Done(status, val) == [status |-> status, value |-> val]

\* the loop of ListType::deserialize and of SetType::deserialize from `pos`
\* on; `rounds` is the number of iterations left before a position repeats
RECURSIVE deserialize_items(_, _, _, _)
deserialize_items(data, pos, elements, rounds) ==
    IF pos < 0 \/ pos >= Len(data) THEN Done("returns", elements)
    ELSE LET colon_pos == find(data, ":", pos)
         IN IF colon_pos = npos THEN Done("returns", elements)
            ELSE LET len == stoi(substr(data, pos, colon_pos - pos))
                 IN IF ~len.ok THEN Done("throws", elements)
                    ELSE IF rounds = 0 THEN Done("hangs", elements)
                    ELSE deserialize_items(
                            data, colon_pos + len.value + 2,
                            Append(elements,
                                   substr_int(data, colon_pos + 1, len.value)),
                            rounds - 1)

list_deserialize(data) ==
    IF data = <<>> \/ data[1] # "L" THEN Done("returns", ListType(<<>>))
    ELSE LET d == deserialize_items(data, 1, <<>>, Len(data))
         IN Done(d.status, ListType(d.value))

set_deserialize(data) ==
    IF data = <<>> \/ data[1] # "S" THEN Done("returns", SetType({}))
    ELSE LET d == deserialize_items(data, 1, <<>>, Len(data))
         IN Done(d.status, SetType(Range(d.value)))

\* the loop of HashType::deserialize from `pos` on
RECURSIVE deserialize_fields(_, _, _, _)
deserialize_fields(data, pos, fields, rounds) ==
    IF pos < 0 \/ pos >= Len(data) THEN Done("returns", fields)
    ELSE LET colon_pos1 == find(data, ":", pos)
         IN IF colon_pos1 = npos THEN Done("returns", fields)
            ELSE LET field_len == stoi(substr(data, pos, colon_pos1 - pos))
                 IN IF ~field_len.ok THEN Done("throws", fields)
                    ELSE LET field == substr_int(data, colon_pos1 + 1, field_len.value)
                             from == colon_pos1 + field_len.value + 1
                             colon_pos2 == find(data, ":", from)
                         IN IF colon_pos2 = npos THEN Done("returns", fields)
                            ELSE LET value_len ==
                                       stoi(substr(data, from, colon_pos2 - from))
                                 IN IF ~value_len.ok THEN Done("throws", fields)
                                    ELSE IF rounds = 0 THEN Done("hangs", fields)
                                    ELSE deserialize_fields(
                                            data, colon_pos2 + value_len.value + 2,
                                            Put(fields, field,
                                                substr_int(data, colon_pos2 + 1,
                                                           value_len.value)),
                                            rounds - 1)

hash_deserialize(data) ==
    IF data = <<>> \/ data[1] # "H" THEN Done("returns", HashType(<<>>))
    ELSE LET d == deserialize_fields(data, 1, <<>>, Len(data))
         IN Done(d.status, HashType(d.value))

\* the while loop of load_from_disk over the lines that are left
RECURSIVE load_lines(_, _, _, _)
load_lines(lines, s, c, b) ==
    IF lines = <<>> THEN Done("returns", Result(<<>>, s, c, b))
    ELSE LET line == Head(lines)
             first_space == find(line, " ", 0)
             second_space == find(line, " ", first_space + 1)
             key == substr(line, first_space + 1, second_space - first_space - 1)
             data == substr_from(line, second_space + 1)
             d == CASE line[1] = "S" -> Done("returns", StringType(data))
                    [] line[1] = "L" -> list_deserialize(data)
                    [] line[1] = "E" -> set_deserialize(data)
                    [] line[1] = "H" -> hash_deserialize(data)
                    [] OTHER -> Done("skips", <<>>)
         IN IF Len(line) < 3 THEN load_lines(Tail(lines), s, c, b)
            ELSE IF first_space = npos \/ second_space = npos
            THEN load_lines(Tail(lines), s, c, b)
            ELSE IF d.status = "skips" THEN load_lines(Tail(lines), s, c, b)
            ELSE IF d.status # "returns" THEN Done(d.status, Result(<<>>, s, c, b))
            ELSE load_lines(Tail(lines), Put(s, key, d.value), access(c, key),
                            bloom_add(b, key))

\* load_from_disk into the database the constructor has just built
load_from_disk(file) ==
    IF ~file.exists THEN Done("returns", Result(<<>>, <<>>, <<>>, {}))
    ELSE load_lines(file.lines, <<>>, <<>>, {})

-----------------------------------------------------------------------------
(* Workloads: the keys, values, fields and indexes the clients send *)

K1 == <<"k","1">>
K2 == <<"k","2">>
K3 == <<"k","3">>

V1 == <<"v">>
V2 == <<"w","w">>
WRONGTYPE_VALUE == <<"W","R","O","N","G","T","Y","P","E","x">>

F1 == <<"f">>
F2 == <<"g">>

\* builds of std::hash: no two keys share a bit; K1 and K2 share one
HashCollision   == [k \in {K1, K2, K3} |-> CASE k = K1 -> 7 [] k = K2 -> 10007 [] k = K3 -> 9]

\* the persistence file is missing
NoFile == [exists |-> FALSE, lines |-> <<>>]

\* a workload that leaves the connections out
NoTransport ==
    /\ sockets = <<>>
    /\ client_buffers = <<>>
    /\ fd = 0
    /\ handed = <<>>
    /\ written = <<>>

\* a database constructed without a persistence file
InitBuild(H) ==
    /\ store = <<>>
    /\ cache = <<>>
    /\ bloom_filter = {}
    /\ hasher \in H
    /\ cmd = <<>>
    /\ reply = <<>>
    /\ persistence_file = NoFile
    /\ pc = "serving"
    /\ starts = 1
    /\ NoTransport

\* main has not constructed the database yet; the file holds one of `files`
InitStart(H, files) ==
    /\ store = <<>>
    /\ cache = <<>>
    /\ bloom_filter = {}
    /\ hasher \in H
    /\ cmd = <<>>
    /\ reply = <<>>
    /\ persistence_file \in files
    /\ pc = "start"
    /\ starts = 0
    /\ NoTransport

\* main constructs the database: BlinkDB::BlinkDB runs load_from_disk on an
\* empty store; an exception it lets out ends the process
Startup ==
    /\ pc \in {"start", "stopped"}
    /\ starts < MaxStarts
    /\ \E r \in {load_from_disk(persistence_file)} :
          /\ store' = r.value.store
          /\ cache' = r.value.cache
          /\ bloom_filter' = r.value.bloom_filter
          /\ pc' = CASE r.status = "returns" -> "serving"
                      [] r.status = "throws" -> "terminated"
                      [] r.status = "hangs" -> "hung"
    /\ starts' = starts + 1
    /\ cmd' = <<>>
    /\ reply' = <<>>
    /\ UNCHANGED <<hasher, persistence_file, transport>>

\* BlinkDB::~BlinkDB runs save_to_disk; the store is kept as the process left it
Shutdown ==
    /\ pc = "serving"
    /\ \E content \in save_to_disk(store) : persistence_file' = content
    /\ pc' = "stopped"
    /\ UNCHANGED <<store, cache, bloom_filter, hasher, cmd, reply, starts, transport>>

-----------------------------------------------------------------------------
(* Requests: one action per command a client sends.  `iss >> part` yields    *)
(* tokens that are not empty and hold no whitespace.                         *)

IsToken(t) == t # <<>> /\ \A i \in 1..Len(t) : t[i] \notin {" ", "\t", "\n", "\r"}

\* a request handled by process_command in a workload that leaves the
\* connections out
Direct(parts) == process_command(parts) /\ UNCHANGED transport

Set(key, value) ==
    IsToken(key) /\ IsToken(value) /\ Direct(<<Sent[cmd_set], key, value>>)
Get(key)  == IsToken(key) /\ Direct(<<Sent[cmd_get], key>>)
Del(key)  == IsToken(key) /\ Direct(<<Sent[cmd_del], key>>)
Type(key) == IsToken(key) /\ Direct(<<Sent[cmd_type], key>>)

LPush(key, value) ==
    IsToken(key) /\ IsToken(value) /\ Direct(<<Sent[cmd_lpush], key, value>>)
RPush(key, value) ==
    IsToken(key) /\ IsToken(value) /\ Direct(<<Sent[cmd_rpush], key, value>>)
LPop(key) == IsToken(key) /\ Direct(<<Sent[cmd_lpop], key>>)
RPop(key) == IsToken(key) /\ Direct(<<Sent[cmd_rpop], key>>)
LIndex(key, index) ==
    IsToken(key) /\ IsToken(index) /\ Direct(<<Sent[cmd_lindex], key, index>>)
LLen(key) == IsToken(key) /\ Direct(<<Sent[cmd_llen], key>>)
LRange(key, start, end) ==
    /\ IsToken(key) /\ IsToken(start) /\ IsToken(end)
    /\ Direct(<<Sent[cmd_lrange], key, start, end>>)

SAdd(key, value) ==
    IsToken(key) /\ IsToken(value) /\ Direct(<<Sent[cmd_sadd], key, value>>)
SIsMember(key, value) ==
    IsToken(key) /\ IsToken(value) /\ Direct(<<Sent[cmd_sismember], key, value>>)
SRem(key, value) ==
    IsToken(key) /\ IsToken(value) /\ Direct(<<Sent[cmd_srem], key, value>>)
SCard(key)    == IsToken(key) /\ Direct(<<Sent[cmd_scard], key>>)
SMembers(key) == IsToken(key) /\ Direct(<<Sent[cmd_smembers], key>>)

HSet(key, field, value) ==
    /\ IsToken(key) /\ IsToken(field) /\ IsToken(value)
    /\ Direct(<<Sent[cmd_hset], key, field, value>>)
HGet(key, field) ==
    IsToken(key) /\ IsToken(field) /\ Direct(<<Sent[cmd_hget], key, field>>)
HExists(key, field) ==
    IsToken(key) /\ IsToken(field) /\ Direct(<<Sent[cmd_hexists], key, field>>)
HDel(key, field) ==
    IsToken(key) /\ IsToken(field) /\ Direct(<<Sent[cmd_hdel], key, field>>)
HLen(key)    == IsToken(key) /\ Direct(<<Sent[cmd_hlen], key>>)
HKeys(key)   == IsToken(key) /\ Direct(<<Sent[cmd_hkeys], key>>)
HVals(key)   == IsToken(key) /\ Direct(<<Sent[cmd_hvals], key>>)
HGetAll(key) == IsToken(key) /\ Direct(<<Sent[cmd_hgetall], key>>)

\* a request of any number of tokens
Request(parts) ==
    /\ parts # <<>>
    /\ \A i \in 1..Len(parts) : IsToken(parts[i])
    /\ Direct(parts)

\* while (iss >> part) command_parts.push_back(part): the maximal runs of
\* characters that are not whitespace
RECURSIVE tokenize(_, _)
tokenize(str, part) ==
    IF str = <<>> THEN (IF part = <<>> THEN <<>> ELSE <<part>>)
    ELSE IF str[1] \in {" ", "\t", "\n", "\r"}
    THEN (IF part = <<>> THEN <<>> ELSE <<part>>) \o tokenize(Tail(str), <<>>)
    ELSE tokenize(Tail(str), Append(part, str[1]))

\* one line of the client buffer, cut at "\r\n" by the event loop: an empty
\* line is dropped without a response, any other line is handed to
\* process_command and its response is written
Line(command) ==
    IF command = <<>>
    THEN /\ pc = "serving"
         /\ cmd' = <<>>
         /\ reply' = <<>>
         /\ UNCHANGED <<store, cache, bloom_filter, hasher, persistence_file, pc, starts>>
    ELSE process_command(tokenize(command, <<>>))

-----------------------------------------------------------------------------
(* Transport: main's event loop over the connections.                        *)

\* a connection nobody has opened
NoSocket == [phase |-> "none", inbox |-> <<>>, eof |-> FALSE, ready |-> FALSE, sent |-> 0]

\* a find that returns the last occurrence (not what the code does)
find_last(s, sub) ==
    LET hits == {p \in 0..(Len(s) - Len(sub)) : SubSeq(s, p + 1, p + Len(sub)) = sub}
    IN IF hits = {} THEN npos ELSE CHOOSE p \in hits : \A q \in hits : q <= p

\* std::string::find(sub): the first position where sub occurs, or npos
find_first(s, sub) ==
    LET hits == {p \in 0..(Len(s) - Len(sub)) : SubSeq(s, p + 1, p + Len(sub)) = sub}
    IN IF hits = {} THEN npos ELSE CHOOSE p \in hits : \A q \in hits : p <= q

\* a client completes a connection to the listening socket; main has called
\* listen before it constructs the database
Connect(c) ==
    /\ pc \in {"start", "serving"}
    /\ sockets[c].phase = "none"
    /\ sockets' = [sockets EXCEPT ![c].phase = "pending"]
    /\ UNCHANGED <<store, cache, bloom_filter, hasher, cmd, reply, persistence_file,
                   pc, starts, client_buffers, fd, handed, written>>

\* the bytes of `chunk` arrive from the client of connection c
Send(c, chunk) ==
    /\ sockets[c].phase \in {"pending", "open"}
    /\ ~sockets[c].eof
    /\ sockets' = [sockets EXCEPT ![c].inbox = @ \o chunk,
                                   ![c].sent = @ + 1,
                                   ![c].ready = @ \/ sockets[c].phase = "open"]
    /\ UNCHANGED <<store, cache, bloom_filter, hasher, cmd, reply, persistence_file,
                   pc, starts, client_buffers, fd, handed, written>>

\* the client of connection c ends its stream
Close(c) ==
    /\ sockets[c].phase \in {"pending", "open"}
    /\ ~sockets[c].eof
    /\ sockets' = [sockets EXCEPT ![c].eof = TRUE,
                                   ![c].ready = @ \/ sockets[c].phase = "open"]
    /\ UNCHANGED <<store, cache, bloom_filter, hasher, cmd, reply, persistence_file,
                   pc, starts, client_buffers, fd, handed, written>>

\* an accept that does not wait for the event loop (not what the code does)
Accept_at_listen(c) ==
    /\ pc \in {"start", "serving"}
    /\ fd = 0
    /\ sockets[c].phase = "pending"
    /\ sockets' = [sockets EXCEPT ![c].phase = "open",
                                   ![c].ready = sockets[c].inbox # <<>> \/ sockets[c].eof]
    /\ client_buffers' = (c :> <<>>) @@ client_buffers
    /\ UNCHANGED <<store, cache, bloom_filter, hasher, cmd, reply, persistence_file,
                   pc, starts, fd, handed, written>>

\* the event of the server socket: accept, register the connection
\* edge-triggered (what is readable at that moment is reported) and give it an
\* empty buffer
Accept(c) ==
    /\ pc = "serving"
    /\ fd = 0
    /\ sockets[c].phase = "pending"
    /\ sockets' = [sockets EXCEPT ![c].phase = "open",
                                   ![c].ready = sockets[c].inbox # <<>> \/ sockets[c].eof]
    /\ client_buffers' = (c :> <<>>) @@ client_buffers
    /\ UNCHANGED <<store, cache, bloom_filter, hasher, cmd, reply, persistence_file,
                   pc, starts, fd, handed, written>>

\* the event of a client socket: read until nothing is left; when the last
\* read reports the end of the stream the connection is closed and its buffer
\* erased, otherwise main enters the command loop on the buffer
ClientData(c) ==
    /\ pc = "serving"
    /\ fd = 0
    /\ sockets[c].phase = "open"
    /\ sockets[c].ready
    /\ IF sockets[c].eof
       THEN /\ sockets' = [sockets EXCEPT ![c].phase = "closed", ![c].inbox = <<>>,
                                          ![c].ready = FALSE]
            /\ client_buffers' = [d \in DOMAIN client_buffers \ {c} |-> client_buffers[d]]
            /\ fd' = 0
       ELSE /\ sockets' = [sockets EXCEPT ![c].inbox = <<>>, ![c].ready = FALSE]
            /\ client_buffers' = [client_buffers EXCEPT ![c] = @ \o sockets[c].inbox]
            /\ fd' = c
    /\ UNCHANGED <<store, cache, bloom_filter, hasher, cmd, reply, persistence_file,
                   pc, starts, handed, written>>

\* one turn of the command loop: cut the first line off the buffer, hand it
\* to process_command unless it is empty, write the response
Command(c) ==
    /\ fd = c
    /\ \E pos \in {find_first(client_buffers[c], CRLF)} :
          /\ pos # npos
          /\ \E command \in {substr_int(client_buffers[c], 0, pos)} :
                /\ Line(command)
                /\ client_buffers' =
                      [client_buffers EXCEPT ![c] = substr_from(@, pos + 2)]
                /\ handed' = IF command = <<>> THEN handed
                             ELSE [handed EXCEPT ![c] = Append(@, command)]
                /\ written' = IF command = <<>> THEN written
                              ELSE [written EXCEPT ![c] = Append(@, reply')]
    /\ UNCHANGED <<sockets, fd>>

\* the buffer holds no complete line: back to epoll_wait
Return(c) ==
    /\ fd = c
    /\ find_first(client_buffers[c], CRLF) = npos
    /\ fd' = 0
    /\ UNCHANGED <<store, cache, bloom_filter, hasher, cmd, reply, persistence_file,
                   pc, starts, sockets, client_buffers, handed, written>>

\* the list a push would extend is still below the bound L of the workload
RoomToPush(key, L) ==
    Has(store, key) /\ store[key].type = "LIST" => Len(store[key].elements) < L

\* the requests of a workload over keys K, values V, fields F, index tokens I
\* and lists of at most L elements
Requests(K, V, F, I, L) ==
    \/ \E key \in K, value \in V : Set(key, value)
    \/ \E key \in K : Get(key)
    \/ \E key \in K : Del(key)
    \/ \E key \in K : Type(key)
    \/ \E key \in K, value \in V : RoomToPush(key, L) /\ LPush(key, value)
    \/ \E key \in K, value \in V : RoomToPush(key, L) /\ RPush(key, value)
    \/ \E key \in K : LPop(key)
    \/ \E key \in K : RPop(key)
    \/ \E key \in K, index \in I : LIndex(key, index)
    \/ \E key \in K : LLen(key)
    \/ \E key \in K, start \in I, end \in I : LRange(key, start, end)
    \/ \E key \in K, value \in V : SAdd(key, value)
    \/ \E key \in K, value \in V : SIsMember(key, value)
    \/ \E key \in K, value \in V : SRem(key, value)
    \/ \E key \in K : SCard(key)
    \/ \E key \in K : SMembers(key)
    \/ \E key \in K, field \in F, value \in V : HSet(key, field, value)
    \/ \E key \in K, field \in F : HGet(key, field)
    \/ \E key \in K, field \in F : HExists(key, field)
    \/ \E key \in K, field \in F : HDel(key, field)
    \/ \E key \in K : HLen(key)
    \/ \E key \in K : HKeys(key)
    \/ \E key \in K : HVals(key)
    \/ \E key \in K : HGetAll(key)

(* The key-space workload: three keys compete for CACHE_SIZE tracker slots,  *)
(* every kind of value is created, read, emptied and deleted.                *)
Keys    == {K1, K2, K3}
Values  == {V1}
Fields  == {F1}
Indexes == {to_string(-1)}

Init == InitBuild({HashCollision})
Next == Requests(Keys, Values, Fields, Indexes, ShortLen)
Spec == Init /\ [][Next]_vars

(* The value workload: two keys, values that equal the in-band sentinels.    *)
ValueKeys      == {K1, K2}
SentinelValues == {V1, NULL_TEXT, WRONGTYPE_VALUE}

NextValues == Requests(ValueKeys, SentinelValues, Fields, Indexes, ShortLen)
SpecValues == Init /\ [][NextValues]_vars

(* The collection workload: two keys, collections of up to two elements.     *)
CollectionValues == {V1, V2}
CollectionFields == {F1, F2}

NextCollections ==
    Requests(ValueKeys, CollectionValues, CollectionFields, Indexes, MaxLen)
SpecCollections == Init /\ [][NextCollections]_vars

(* The list workload: one key, lists of up to LongLen elements, indexes on   *)
(* both sides of every list position and far outside.                        *)
ListKeys    == {K1}
ListValues  == {V1, V2, NULL_TEXT}
ListIndexInts == {-100, -4, -1, 0, 1, 2, 100}
ListIndexes == {to_string(i) : i \in ListIndexInts}

NextList == Requests(ListKeys, ListValues, Fields, ListIndexes, LongLen)
SpecList == Init /\ [][NextList]_vars

(* The range workload: one key, lists of up to LongLen elements of two       *)
(* values, the same indexes.                                                 *)
NextRange == Requests(ListKeys, CollectionValues, Fields, ListIndexes, LongLen)
SpecRange == Init /\ [][NextRange]_vars

(* The persistence workload: the first process builds strings, lists, sets    *)
(* and hashes on two keys and deletes them; it is shut down and a second      *)
(* process is started on the file it wrote.                                   *)
Writes(K, V, F, L) ==
    \E key \in K, value \in V, field \in F :
        \/ starts = 1 /\ Set(key, value)
        \/ starts = 1 /\ RoomToPush(key, L) /\ RPush(key, value)
        \/ starts = 1 /\ SAdd(key, value)
        \/ starts = 1 /\ HSet(key, field, value)
        \/ starts = 1 /\ Del(key)

InitPersistence == InitStart({HashCollision}, {NoFile})
NextPersistence ==
    \/ Writes(ValueKeys, CollectionValues, Fields, MaxLen)
    \/ Startup
    \/ Shutdown
SpecPersistence == InitPersistence /\ [][NextPersistence]_vars

(* The load workload: the first process starts on a file of two well-formed   *)
(* lines with a malformed line between them, or on no file.                   *)
GoodString == <<"S", " ">> \o K1 \o <<" ">> \o V1
GoodList   == <<"L", " ">> \o K2 \o <<" ", "L", "1", ":">> \o V1 \o <<",">>

UnknownKind  == <<"X", " ">> \o K3 \o <<" ">> \o V1
NoValuePart  == <<"S", " ">> \o K3
NoKeyPart    == <<"S", "k">>
BadListLen   == <<"L", " ">> \o K3 \o <<" ", "L", "x", ":">> \o V1 \o <<",">>
BadSetLen    == <<"E", " ">> \o K3 \o <<" ", "S", "x", ":">> \o V1 \o <<",">>

MalformedLines == {UnknownKind, NoValuePart, NoKeyPart, BadListLen, BadSetLen}

LoadFiles ==
    {NoFile} \cup {[exists |-> TRUE, lines |-> <<GoodString, bad, GoodList>>] :
                     bad \in MalformedLines}

InitLoad == InitStart({HashCollision}, LoadFiles)
NextLoad ==
    \/ Writes(ValueKeys, Values, Fields, ShortLen)
    \/ Startup
    \/ Shutdown
SpecLoad == InitLoad /\ [][NextLoad]_vars

(* The request workload: two keys hold strings and lists; clients send        *)
(* requests with too few arguments, unknown command names, index tokens that  *)
(* are not numbers, and raw lines that are empty or blank.                    *)
Upper(name) ==
    [i \in 1..Len(name) |-> UpperCase[CHOOSE j \in 1..26 : LowerCase[j] = name[i]]]
Capital(name) == <<Upper(name)[1]>> \o Tail(name)

UnknownNames == {<<"f","o","o">>, <<"s","e","t","x">>, <<"g","e">>}

\* the ways a client spells a command name
Spellings == [name \in DOMAIN Sent \cup UnknownNames |->
                 {name, Upper(name), Capital(name)}]

\* the number of arguments below which process_command does not take the
\* command's branch; an unknown name has no branch
Needs(name) ==
    CASE name \in {cmd_lrange, cmd_hset} -> 3
      [] name \in {cmd_set, cmd_lpush, cmd_rpush, cmd_lindex, cmd_sadd,
                   cmd_sismember, cmd_srem, cmd_hget, cmd_hexists, cmd_hdel} -> 2
      [] name = cmd_ping -> 0
      [] name \in UnknownNames -> 4
      [] OTHER -> 1

ZERO == <<"0">>
Short(spelling, n) == SubSeq(<<spelling, K1, ZERO, ZERO>>, 1, n)

IndexTokens == {ZERO, <<"x">>, <<"0","x">>, <<"-">>}

LineOf(parts) == Join([i \in 1..Len(parts) |-> parts[i] \o <<" ">>])
Blank == {<<" ">>, <<" ", "\t">>, <<"\n">>}
Lines ==
    {<<>>} \cup Blank
    \cup {LineOf(<<Sent[cmd_ping]>>), <<" ">> \o LineOf(<<Sent[cmd_get], K1>>),
          LineOf(<<Sent[cmd_set], K2, V1>>)}

NextRequests ==
    \/ \E key \in ValueKeys, value \in Values : Set(key, value)
    \/ \E key \in ValueKeys, value \in Values :
            RoomToPush(key, ShortLen) /\ RPush(key, value)
    \/ \E key \in ValueKeys : Del(key)
    \/ \E name \in DOMAIN Spellings :
            \E spelling \in Spellings[name], n \in 1..Needs(name) :
                Request(Short(spelling, n))
    \/ \E key \in ValueKeys, index \in IndexTokens : LIndex(key, index)
    \/ \E key \in ValueKeys, start \in IndexTokens, end \in IndexTokens :
            LRange(key, start, end)
    \/ \E line \in Lines : Line(line) /\ UNCHANGED transport
SpecRequests == Init /\ [][NextRequests]_vars

(* The transport workload: the database is constructed on a file of two      *)
(* lines or on none; two clients connect, send their request lines in        *)
(* pieces and may end their streams at any moment.                           *)
Conns == {1, 2}

Wire(parts) == SubSeq(LineOf(parts), 1, Len(LineOf(parts)) - 1) \o CRLF

\* the pieces of `stream` that end at the positions `cuts`
Chunks(stream, cuts) ==
    [i \in 1..Len(cuts) |->
        SubSeq(stream, (IF i = 1 THEN 0 ELSE cuts[i - 1]) + 1, cuts[i])]

\* connection 1 sends SET k1 v and GET k1, the second line and its line end
\* in pieces; connection 2 sends DEL k1 and GET k1 in one piece
Stream == <<Wire(<<Sent[cmd_set], K1, V1>>) \o Wire(<<Sent[cmd_get], K1>>),
            Wire(<<Sent[cmd_del], K1>>) \o Wire(<<Sent[cmd_get], K1>>)>>
Script == <<Chunks(Stream[1], <<12, 17, 18>>), Chunks(Stream[2], <<16>>)>>

TransportFiles == {NoFile, [exists |-> TRUE, lines |-> <<GoodString, GoodList>>]}

InitTransport ==
    /\ store = <<>>
    /\ cache = <<>>
    /\ bloom_filter = {}
    /\ hasher = HashCollision
    /\ cmd = <<>>
    /\ reply = <<>>
    /\ persistence_file \in TransportFiles
    /\ pc = "start"
    /\ starts = 0
    /\ sockets = [c \in Conns |-> NoSocket]
    /\ client_buffers = <<>>
    /\ fd = 0
    /\ handed = [c \in Conns |-> <<>>]
    /\ written = [c \in Conns |-> <<>>]

NextTransport ==
    \/ Startup
    \/ \E c \in Conns : Connect(c)
    \/ \E c \in Conns :
          /\ sockets[c].sent < Len(Script[c])
          /\ Send(c, Script[c][sockets[c].sent + 1])
    \/ \E c \in Conns : Close(c)
    \/ \E c \in Conns : Accept(c)
    \/ \E c \in Conns : ClientData(c)
    \/ \E c \in Conns : Command(c)
    \/ \E c \in Conns : Return(c)
SpecTransport == InitTransport /\ [][NextTransport]_vars

-----------------------------------------------------------------------------
(* Properties of the key space *)

Live == DOMAIN store

NONE_REPLY == SimpleString(<<"n","o","n","e">>)
OK_REPLY == SimpleString(<<"O","K">>)
WRONGTYPE_REPLY == Error(WRONGTYPE_MSG)

\* C1: in every reachable state the number of live keys is at most CACHE_SIZE.
C1_CapacityBound == Cardinality(Live) <= CACHE_SIZE

\* C2: when the store holds CACHE_SIZE keys, all of them tracked, a command that
\* inserts one more key leaves exactly CACHE_SIZE keys live: the new key and
\* all former ones except the least recently touched one, which GET and TYPE
\* then report absent.
C2_OverflowEvictsLeastRecent ==
    [][\A key \in Keys :
          (/\ Cardinality(Live) = CACHE_SIZE
           /\ Range(cache) = Live
           /\ ~Has(store, key)
           /\ Has(store', key))
          => /\ Cardinality(Live') = CACHE_SIZE
             /\ Live' = (Live \ {get_oldest(cache)}) \cup {key}
             /\ GetReply(get_oldest(cache))' = NullBulk
             /\ TypeReply(get_oldest(cache))' = NONE_REPLY]_vars

\* C3: SET k v replies +OK, and GET k in the state it leaves replies the bulk
\* string of v, for every key and value of the value workload.
C3_SetThenGet ==
    [][\A key \in ValueKeys, value \in SentinelValues :
          (cmd' = cmd_set /\ Set(key, value))
          => /\ reply' = OK_REPLY
             /\ GetReply(key)' = Bulk(value)]_vars

\* C4: DEL k replies :1 and leaves k in neither the store nor the tracker,
\* whatever k held; GET k then replies the null bulk and TYPE k none.
C4_DelRemoves ==
    [][\A key \in Keys :
          (cmd' = cmd_del /\ Del(key))
          => /\ reply' = Integer(<<"1">>)
             /\ ~Has(store', key)
             /\ ~contains(cache', key)
             /\ GetReply(key)' = NullBulk
             /\ TypeReply(key)' = NONE_REPLY]_vars

\* a DEL was the last command, K3 was once added (only K3 sets its filter bit)
\* and is now in neither the store nor the tracker, while another key lives on
C4_Witness ==
    /\ cmd = cmd_del
    /\ reply = Integer(<<"1">>)
    /\ bloom_contains(bloom_filter, K3)
    /\ ~Has(store, K3)
    /\ ~contains(cache, K3)
    /\ Live # {}

\* key is live and holds a value of another kind than `kind`
Other(key, kind) == Has(store, key) /\ store[key].type # kind

\* the step answered the type-mismatch error and left the value at key as it was
Rejected(key) ==
    /\ reply' = WRONGTYPE_REPLY
    /\ Has(store', key)
    /\ store'[key] = store[key]
    /\ TypeReply(key)' = TypeReply(key)

\* C5: every typed command addressed to a live key of another kind (GET on a
\* non-string, a list command on a non-list, a set command on a non-set, a hash
\* command on a non-hash) replies the WRONGTYPE error and leaves the value
\* stored at the key unchanged.
C5_WrongKindIsRejected ==
    [][
       /\ cmd' = cmd_get =>
            \A key \in Keys :
                Other(key, "STRING") => (Rejected(key) \/ ~Get(key))
       /\ cmd' = cmd_lpush =>
            \A key \in Keys, value \in Values :
                Other(key, "LIST") => (Rejected(key) \/ ~LPush(key, value))
       /\ cmd' = cmd_rpush =>
            \A key \in Keys, value \in Values :
                Other(key, "LIST") => (Rejected(key) \/ ~RPush(key, value))
       /\ cmd' = cmd_lpop =>
            \A key \in Keys :
                Other(key, "LIST") => (Rejected(key) \/ ~LPop(key))
       /\ cmd' = cmd_rpop =>
            \A key \in Keys :
                Other(key, "LIST") => (Rejected(key) \/ ~RPop(key))
       /\ cmd' = cmd_lindex =>
            \A key \in Keys, index \in Indexes :
                Other(key, "LIST") => (Rejected(key) \/ ~LIndex(key, index))
       /\ cmd' = cmd_llen =>
            \A key \in Keys :
                Other(key, "LIST") => (Rejected(key) \/ ~LLen(key))
       /\ cmd' = cmd_lrange =>
            \A key \in Keys, start \in Indexes, end \in Indexes :
                Other(key, "LIST") => (Rejected(key) \/ ~LRange(key, start, end))
       /\ cmd' = cmd_sadd =>
            \A key \in Keys, value \in Values :
                Other(key, "SET") => (Rejected(key) \/ ~SAdd(key, value))
       /\ cmd' = cmd_sismember =>
            \A key \in Keys, value \in Values :
                Other(key, "SET") => (Rejected(key) \/ ~SIsMember(key, value))
       /\ cmd' = cmd_srem =>
            \A key \in Keys, value \in Values :
                Other(key, "SET") => (Rejected(key) \/ ~SRem(key, value))
       /\ cmd' = cmd_scard =>
            \A key \in Keys :
                Other(key, "SET") => (Rejected(key) \/ ~SCard(key))
       /\ cmd' = cmd_smembers =>
            \A key \in Keys :
                Other(key, "SET") => (Rejected(key) \/ ~SMembers(key))
       /\ cmd' = cmd_hset =>
            \A key \in Keys, field \in Fields, value \in Values :
                Other(key, "HASH") => (Rejected(key) \/ ~HSet(key, field, value))
       /\ cmd' = cmd_hget =>
            \A key \in Keys, field \in Fields :
                Other(key, "HASH") => (Rejected(key) \/ ~HGet(key, field))
       /\ cmd' = cmd_hexists =>
            \A key \in Keys, field \in Fields :
                Other(key, "HASH") => (Rejected(key) \/ ~HExists(key, field))
       /\ cmd' = cmd_hdel =>
            \A key \in Keys, field \in Fields :
                Other(key, "HASH") => (Rejected(key) \/ ~HDel(key, field))
       /\ cmd' = cmd_hlen =>
            \A key \in Keys :
                Other(key, "HASH") => (Rejected(key) \/ ~HLen(key))
       /\ cmd' = cmd_hkeys =>
            \A key \in Keys :
                Other(key, "HASH") => (Rejected(key) \/ ~HKeys(key))
       /\ cmd' = cmd_hvals =>
            \A key \in Keys :
                Other(key, "HASH") => (Rejected(key) \/ ~HVals(key))
       /\ cmd' = cmd_hgetall =>
            \A key \in Keys :
                Other(key, "HASH") => (Rejected(key) \/ ~HGetAll(key))
      ]_vars

\* an HDEL was answered with the WRONGTYPE error: it addressed a live key that
\* is no hash (the store holds no hash), and that key is still there
C5_Witness ==
    /\ cmd = cmd_hdel
    /\ reply = WRONGTYPE_REPLY
    /\ Live # {}
    /\ \A key \in Live : store[key].type # "HASH"
    /\ \E key \in Live : store[key].type = "SET"

\* C6: a command that ends in the type-mismatch error changes neither the
\* store nor the recency tracker nor the filter.
C6_MismatchMutatesNothing ==
    [][reply' = WRONGTYPE_REPLY => UNCHANGED <<store, cache, bloom_filter>>]_vars

-----------------------------------------------------------------------------
(* Properties of collections and kinds *)

Is(key, kind) == Has(store, key) /\ store[key].type = kind

Size(val) ==
    CASE val.type = "STRING" -> 1
      [] val.type = "LIST" -> Len(val.elements)
      [] val.type = "SET" -> Cardinality(val.members)
      [] val.type = "HASH" -> Cardinality(DOMAIN val.fields)

NoEmptyCollection == \A key \in Live : Size(store[key]) >= 1

\* after the step the key is in neither the store nor the tracker
Gone(key) ==
    /\ ~Has(store', key)
    /\ ~contains(cache', key)
    /\ TypeReply(key)' = NONE_REPLY

\* after the step the key still holds a collection of the same kind, not empty
Kept(key) ==
    /\ Has(store', key)
    /\ store'[key].type = store[key].type
    /\ Size(store'[key]) >= 1
    /\ TypeReply(key)' = TypeReply(key)

\* C7: an LPOP, RPOP, SREM or HDEL on a collection removes the key from store
\* and tracker exactly when it leaves the collection without elements, and
\* keeps the key otherwise; no state holds an empty collection.
C7_AbsentExactlyWhenEmptied ==
    [][/\ NoEmptyCollection'
       /\ cmd' = cmd_lpop =>
            \A key \in ValueKeys :
                (Is(key, "LIST") /\ LPop(key)) =>
                    IF Len(store[key].elements) <= 1 THEN Gone(key) ELSE Kept(key)
       /\ cmd' = cmd_rpop =>
            \A key \in ValueKeys :
                (Is(key, "LIST") /\ RPop(key)) =>
                    IF Len(store[key].elements) <= 1 THEN Gone(key) ELSE Kept(key)
       /\ cmd' = cmd_srem =>
            \A key \in ValueKeys, value \in CollectionValues :
                (Is(key, "SET") /\ SRem(key, value)) =>
                    IF store[key].members \subseteq {value}
                    THEN Gone(key) ELSE Kept(key)
       /\ cmd' = cmd_hdel =>
            \A key \in ValueKeys, field \in CollectionFields :
                (Is(key, "HASH") /\ HDel(key, field)) =>
                    IF DOMAIN store[key].fields \subseteq {field}
                    THEN Gone(key) ELSE Kept(key)
      ]_vars

\* an LPOP returned an element, so it addressed a list, and nothing is left in
\* store or tracker: the pop took the last element and the key went with it
C7_Witness ==
    /\ cmd = cmd_lpop
    /\ reply = Bulk(V1)
    /\ Live = {}
    /\ cache = <<>>
    /\ bloom_filter # {}

\* C8: SET k v on a key holding a list, set or hash replies +OK and leaves k a
\* string: TYPE k replies string, GET k replies v, k heads the tracker.
C8_SetOverwritesAnyKind ==
    [][cmd' = cmd_set =>
         \A key \in ValueKeys, value \in SentinelValues :
             (Other(key, "STRING") /\ Set(key, value))
             => /\ reply' = OK_REPLY
                /\ TypeReply(key)' = SimpleString(<<"s","t","r","i","n","g">>)
                /\ GetReply(key)' = Bulk(value)
                /\ cache' # <<>>
                /\ Head(cache') = key]_vars

\* C9: a key that is live before and after a command holds the same kind of
\* value before and after it.
C9_KindNeverChanges ==
    [][\A key \in Keys :
          (Has(store, key) /\ Has(store', key))
          => /\ store'[key].type = store[key].type
             /\ TypeReply(key)' = TypeReply(key)]_vars

\* C9 as amended: a key that is live before and after a command holds the same
\* kind before and after it, unless the command is a SET of that key, which
\* leaves it a string.
C9_KindChangesOnlyBySet ==
    [][\A key \in Keys :
          (Has(store, key) /\ Has(store', key))
          => \/ /\ store'[key].type = store[key].type
                /\ TypeReply(key)' = TypeReply(key)
             \/ /\ cmd' = cmd_set
                /\ \E value \in Values : Set(key, value)
                /\ store'[key].type = "STRING"]_vars

\* an HSET overwrote a field: the key held a hash before the command and holds
\* one after it, next to a key of another kind
C9_Witness ==
    /\ cmd = cmd_hset
    /\ reply = Integer(<<"0">>)
    /\ \E key \in Live : store[key].type = "HASH"
    /\ \E key \in Live : store[key].type = "LIST"

-----------------------------------------------------------------------------
(* Properties of LRANGE *)

\* a negative bound counts from the end of a list of n elements
FromEnd(n, bound) == IF bound < 0 THEN n + bound ELSE bound

\* the slice with both bounds pulled into [0, n - 1]
SliceClampedBoth(elements, start, end) ==
    LET n == Len(elements)
        s == Max(0, Min(n - 1, FromEnd(n, start)))
        e == Max(0, Min(n - 1, FromEnd(n, end)))
    IN IF s > e THEN <<>> ELSE SubSeq(elements, s + 1, e + 1)

\* the elements whose position (from 0) lies between the two bounds
SliceBetween(elements, start, end) ==
    LET n == Len(elements)
        positions == {i \in 0..(n - 1) :
                         FromEnd(n, start) <= i /\ i <= FromEnd(n, end)}
        first == CHOOSE i \in positions : \A j \in positions : i <= j
    IN [j \in 1..Cardinality(positions) |-> elements[first + j]]

\* C10: LRANGE on a list of n >= 1 elements replies the inclusive slice between
\* the two bounds after a negative bound had n added and each bound was
\* clamped into [0, n-1] (empty if start > end).
C10_LRangeClampsBoth ==
    [][cmd' = cmd_lrange =>
         \A key \in ListKeys, start \in ListIndexInts, end \in ListIndexInts :
             (Is(key, "LIST") /\ LRange(key, to_string(start), to_string(end)))
             => reply' = Array(SliceClampedBoth(store[key].elements, start, end))]_vars

\* C10 as amended: LRANGE on a list of n >= 1 elements replies, in list order,
\* the elements whose position lies between the two bounds after a negative
\* bound had n added: start is clamped below at 0 and end above at n-1 only,
\* so a start beyond the last element or an end before the first gives the
\* empty array.  LRANGE k -100 100 replies the whole list, LRANGE k 2 1 the
\* empty array.
C10_LRangeBetweenBounds ==
    [][cmd' = cmd_lrange =>
         \A key \in ListKeys :
            /\ \A start \in ListIndexInts, end \in ListIndexInts :
                 \/ ~Is(key, "LIST")
                 \/ reply' = Array(SliceBetween(store[key].elements, start, end))
                 \/ ~LRange(key, to_string(start), to_string(end))
            /\ (Is(key, "LIST") /\ LRange(key, to_string(-100), to_string(100)))
                 => reply' = Array(store[key].elements)
            /\ (Is(key, "LIST") /\ LRange(key, to_string(2), to_string(1)))
                 => reply' = EMPTY_ARRAY]_vars

\* an LRANGE on a list of three elements returned all three in order
C10_Witness ==
    /\ cmd = cmd_lrange
    /\ Is(K1, "LIST")
    /\ store[K1].elements = <<V1, V2, V1>>
    /\ reply = Array(<<V1, V2, V1>>)

-----------------------------------------------------------------------------
(* Properties of the list commands *)

\* the elements of the list at key, none when the key is absent
Elements(key) == IF Is(key, "LIST") THEN store[key].elements ELSE <<>>

\* after the step the list at key holds `rest`; the key is gone when rest is empty
Remaining(key, rest) ==
    IF rest = <<>> THEN ~Has(store', key)
    ELSE Has(store', key) /\ store'[key] = ListType(rest)

\* C11: on an absent key or a list, LPUSH k v puts v at the head and RPUSH k v
\* at the tail and each replies the new length; LPOP removes the head and
\* RPOP the tail of a list and replies it as a bulk string; LRANGE k 0 -1
\* replies all elements in list order.
C11_ListEnds ==
    [][/\ cmd' = cmd_lpush =>
            \A key \in ListKeys, value \in ListValues :
                Other(key, "LIST")
                \/ /\ reply' = Integer(to_string(Len(Elements(key)) + 1))
                   /\ Remaining(key, <<value>> \o Elements(key))
                \/ ~LPush(key, value)
       /\ cmd' = cmd_rpush =>
            \A key \in ListKeys, value \in ListValues :
                Other(key, "LIST")
                \/ /\ reply' = Integer(to_string(Len(Elements(key)) + 1))
                   /\ Remaining(key, Elements(key) \o <<value>>)
                \/ ~RPush(key, value)
       /\ cmd' = cmd_lpop =>
            \A key \in ListKeys :
                ~Is(key, "LIST")
                \/ /\ reply' = Bulk(Head(Elements(key)))
                   /\ Remaining(key, Tail(Elements(key)))
                \/ ~LPop(key)
       /\ cmd' = cmd_rpop =>
            \A key \in ListKeys :
                ~Is(key, "LIST")
                \/ /\ reply' = Bulk(Elements(key)[Len(Elements(key))])
                   /\ Remaining(key, SubSeq(Elements(key), 1, Len(Elements(key)) - 1))
                \/ ~RPop(key)
       /\ cmd' = cmd_lrange =>
            \A key \in ListKeys :
                ~Is(key, "LIST")
                \/ reply' = Array(Elements(key))
                \/ ~LRange(key, to_string(0), to_string(-1))
      ]_vars

\* the reply the list `elements` owes to an index: the element at i from the
\* head when 0 <= i < n, at n + i when -n <= i < 0, the null bulk otherwise
IndexedReply(elements, i) ==
    LET n == Len(elements)
    IN IF 0 <= i /\ i < n THEN Bulk(elements[i + 1])
       ELSE IF -n <= i /\ i < 0 THEN Bulk(elements[n + i + 1])
       ELSE NullBulk

\* C12: LINDEX k i on a list of n elements replies element i when 0 <= i < n,
\* element n + i when -n <= i < 0, and the null bulk for every other i; the
\* list is left as it was.
C12_LIndexInRange ==
    [][cmd' = cmd_lindex =>
         \A key \in ListKeys, i \in ListIndexInts :
             \/ ~Is(key, "LIST")
             \/ /\ reply' = IndexedReply(store[key].elements, i)
                /\ store' = store
             \/ ~LIndex(key, to_string(i))]_vars

-----------------------------------------------------------------------------
(* Properties of persistence *)

\* C13: a process started on the file that save_to_disk wrote from a store
\* built by commands gets to serve, and its store has the same keys with equal
\* values: same kind, same list elements in order, same members, same fields.
C13_SaveLoadRoundTrip ==
    [][(pc = "stopped" /\ pc' # "stopped")
       => /\ pc' = "serving"
          /\ store' = store]_vars

\* C14: a process started on a file with a malformed line between two
\* well-formed ones gets to serve with exactly the keys of the well-formed
\* lines; started on no file it serves an empty store.
C14_MalformedLineIsSkipped ==
    [][(pc = "start" /\ pc' # "start")
       => /\ pc' = "serving"
          /\ store' = IF persistence_file.exists
                      THEN (K1 :> StringType(V1)) @@ (K2 :> ListType(<<V1>>))
                      ELSE <<>>]_vars

-----------------------------------------------------------------------------
(* Properties of the existence filter *)

\* C15: the filter never gives a false negative. In a serving process every
\* key of the store (put there by SET, by the creation of a collection or by
\* the load) passes the filter check, and a key that passes the check keeps
\* passing it after every later command of that process, DEL included.
C15_FilterNoFalseNegative ==
    [][/\ pc' = "serving"
          => \A key \in DOMAIN store' : bloom_contains(bloom_filter', key)
       /\ (pc = "serving" /\ pc' = "serving")
          => \A key \in Keys :
                bloom_contains(bloom_filter, key) => bloom_contains(bloom_filter', key)]_vars

\* a key was set and deleted while the other key stays stored: the deleted
\* key still passes the filter check
C15_Witness ==
    /\ pc = "serving"
    /\ cmd = cmd_del
    /\ starts = 1
    /\ ~Has(store, K1)
    /\ Has(store, K2)
    /\ bloom_contains(bloom_filter, K1)

-----------------------------------------------------------------------------
(* Properties of request handling *)

UnknownCommand(name) ==
    Error(<<"E","R","R"," ","u","n","k","n","o","w","n"," ","c","o","m","m","a","n","d",
            " ","'">> \o name \o <<"'">>)

\* C16: a command sent with fewer arguments than it needs, in any spelling of
\* its name, is answered with the unknown-command error naming the lower-cased
\* command, as a request with an unrecognized name is, and store, tracker and
\* filter stay as they were.
C16_TooFewArgumentsIsUnknown ==
    [][\A name \in DOMAIN Spellings :
          cmd' \in Spellings[name]
          => \A spelling \in Spellings[name], n \in 1..Needs(name) :
                \/ reply' = UnknownCommand(name) /\ UNCHANGED <<store, cache, bloom_filter>>
                \/ ~Request(Short(spelling, n))]_vars

\* HSET was sent with too few arguments while k1 holds a value
C16_Witness ==
    /\ cmd = cmd_hset
    /\ reply = UnknownCommand(cmd_hset)
    /\ Has(store, K1)

\* a token that is an integer: an optional minus sign, then digits only
IsNumber(token) ==
    LET digits == IF token # <<>> /\ token[1] = "-" THEN Tail(token) ELSE token
    IN digits # <<>> /\ \A i \in 1..Len(digits) : digits[i] \in Range(Digits)

ParseError(response) == Len(response) > 5 /\ SubSeq(response, 1, 5) = <<"-","E","R","R"," ">>

\* C17: LINDEX and LRANGE with an index or bound that is not a number are
\* answered with an error response starting with -ERR, and store, tracker and
\* filter stay as they were.
C17_NonNumericIndexIsError ==
    [][/\ cmd' = cmd_lindex
          => \A key \in ValueKeys, index \in IndexTokens :
                \/ IsNumber(index)
                \/ ParseError(reply') /\ UNCHANGED <<store, cache, bloom_filter>>
                \/ ~LIndex(key, index)
       /\ cmd' = cmd_lrange
          => \A key \in ValueKeys, start \in IndexTokens, end \in IndexTokens :
                \/ IsNumber(start) /\ IsNumber(end)
                \/ ParseError(reply') /\ UNCHANGED <<store, cache, bloom_filter>>
                \/ ~LRange(key, start, end)]_vars

\* what the code does provide: the same for tokens that std::stoi rejects
NoDigitIndexIsError ==
    [][/\ cmd' = cmd_lindex
          => \A key \in ValueKeys, index \in IndexTokens :
                \/ stoi(index).ok
                \/ ParseError(reply') /\ UNCHANGED <<store, cache, bloom_filter>>
                \/ ~LIndex(key, index)
       /\ cmd' = cmd_lrange
          => \A key \in ValueKeys, start \in IndexTokens, end \in IndexTokens :
                \/ stoi(start).ok /\ stoi(end).ok
                \/ ParseError(reply') /\ UNCHANGED <<store, cache, bloom_filter>>
                \/ ~LRange(key, start, end)]_vars

\* C18: every request line gets a response; a line with no token (empty or
\* only whitespace) is answered with an error.
C18_EveryLineIsAnswered ==
    [][\A line \in Lines :
          \/ /\ reply' # <<>>
             /\ tokenize(line, <<>>) = <<>> => reply'[1] = "-"
          \/ ~Line(line)]_vars

\* what the code does provide: every line that is not empty gets a response
NonEmptyLineIsAnswered ==
    [][\A line \in Lines \ {<<>>} :
          \/ /\ reply' # <<>>
             /\ tokenize(line, <<>>) = <<>> => reply'[1] = "-"
          \/ ~Line(line)]_vars

-----------------------------------------------------------------------------
(* Properties of element replies *)

\* the reply a command on a value of `kind` owes to key: the null bulk when
\* the key is absent, the kind error when it holds another kind, else `owed`
Owed(key, kind, owed) ==
    IF ~Has(store, key) THEN NullBulk
    ELSE IF store[key].type # kind THEN WRONGTYPE_REPLY
    ELSE owed

FieldReply(key, field) ==
    IF Is(key, "HASH") /\ Has(store[key].fields, field)
    THEN Bulk(store[key].fields[field]) ELSE NullBulk

\* C19: LPOP, RPOP, LINDEX and HGET reply the null bulk only when the key, the
\* element or the field is absent and an error only when the key holds another
\* kind; otherwise they reply the text of the element or field as a bulk
\* string, whatever the text is.
C19_ElementRepliedAsBulk ==
    [][/\ cmd' = cmd_lpop =>
            \A key \in ValueKeys :
                \/ reply' = Owed(key, "LIST", IndexedReply(Elements(key), 0))
                \/ ~LPop(key)
       /\ cmd' = cmd_rpop =>
            \A key \in ValueKeys :
                \/ reply' = Owed(key, "LIST", IndexedReply(Elements(key), -1))
                \/ ~RPop(key)
       /\ cmd' = cmd_lindex =>
            \A key \in ValueKeys :
                \/ reply' = Owed(key, "LIST", IndexedReply(Elements(key), -1))
                \/ ~LIndex(key, to_string(-1))
       /\ cmd' = cmd_hget =>
            \A key \in ValueKeys, field \in Fields :
                \/ reply' = Owed(key, "HASH", FieldReply(key, field))
                \/ ~HGet(key, field)]_vars

\* what the code does provide: the same when no stored text is NULL or
\* begins with WRONGTYPE
ElementRepliedAsBulkUnlessSentinel ==
    [][(\A key \in Live :
            /\ Is(key, "LIST") => \A i \in 1..Len(store[key].elements) :
                    store[key].elements[i] = V1
            /\ Is(key, "HASH") => \A field \in DOMAIN store[key].fields :
                    store[key].fields[field] = V1)
       => /\ cmd' = cmd_lpop =>
               \A key \in ValueKeys :
                   \/ reply' = Owed(key, "LIST", IndexedReply(Elements(key), 0))
                   \/ ~LPop(key)
          /\ cmd' = cmd_rpop =>
               \A key \in ValueKeys :
                   \/ reply' = Owed(key, "LIST", IndexedReply(Elements(key), -1))
                   \/ ~RPop(key)
          /\ cmd' = cmd_lindex =>
               \A key \in ValueKeys :
                   \/ reply' = Owed(key, "LIST", IndexedReply(Elements(key), -1))
                   \/ ~LIndex(key, to_string(-1))
          /\ cmd' = cmd_hget =>
               \A key \in ValueKeys, field \in Fields :
                   \/ reply' = Owed(key, "HASH", FieldReply(key, field))
                   \/ ~HGet(key, field)]_vars

-----------------------------------------------------------------------------
(* Properties of the set commands *)

Bit(b) == Integer(IF b THEN <<"1">> ELSE <<"0">>)

\* after the step the set at key holds `members` (the key is gone when there
\* is none) and every other key holds what it held
SetBecomes(key, members) ==
    /\ MembersOf(key)' = members
    /\ Has(store', key) <=> members # {}
    /\ \A other \in Keys \ {key} :
          /\ Has(store', other) <=> Has(store, other)
          /\ Has(store, other) => store'[other] = store[other]

\* C20: on a key that is absent or holds a set, SADD k v replies 1 exactly
\* when v was not a member and makes it one, SISMEMBER k v replies 1 exactly
\* when v is a member, SREM k v replies 1 exactly when v was a member and
\* removes it, and SCARD k replies the number of members, 0 for an absent key.
C20_SetCommandsAreASet ==
    [][/\ cmd' = cmd_sadd =>
            \A key \in ValueKeys, value \in CollectionValues :
                \/ Other(key, "SET")
                \/ /\ reply' = Bit(value \notin MembersOf(key))
                   /\ SetBecomes(key, MembersOf(key) \cup {value})
                \/ ~SAdd(key, value)
       /\ cmd' = cmd_sismember =>
            \A key \in ValueKeys, value \in CollectionValues :
                \/ Other(key, "SET")
                \/ /\ reply' = Bit(value \in MembersOf(key))
                   /\ store' = store
                \/ ~SIsMember(key, value)
       /\ cmd' = cmd_srem =>
            \A key \in ValueKeys, value \in CollectionValues :
                \/ Other(key, "SET")
                \/ /\ reply' = Bit(value \in MembersOf(key))
                   /\ SetBecomes(key, MembersOf(key) \ {value})
                \/ ~SRem(key, value)
       /\ cmd' = cmd_scard =>
            \A key \in ValueKeys :
                \/ Other(key, "SET")
                \/ /\ reply' = Integer(to_string(Cardinality(MembersOf(key))))
                   /\ store' = store
                \/ ~SCard(key)]_vars

\* a member was removed from a set of two: one member is left
C20_Witness ==
    /\ cmd = cmd_srem
    /\ reply = Bit(TRUE)
    /\ \E key \in ValueKeys : MembersOf(key) = {V2}

-----------------------------------------------------------------------------
(* Properties of the hash commands *)

\* what the handler answers to HGET key field in the current state
HGetReply(key, field) == EncodeBulk(hget(key, field).ret)

\* the fields of the hash at key as a map, empty when the key is absent
Map(key) == IF Is(key, "HASH") THEN store[key].fields ELSE <<>>

\* after the step the hash at key holds `fields` (the key is gone when there
\* is none) and every other key holds what it held
HashBecomes(key, fields) ==
    /\ Map(key)' = fields
    /\ Has(store', key) <=> fields # <<>>
    /\ \A other \in Keys \ {key} :
          /\ Has(store', other) <=> Has(store, other)
          /\ Has(store, other) => store'[other] = store[other]

\* the hash commands on keys K, fields F and values V behave as a map
HashIsAFieldMap(K, F, V) ==
    /\ cmd' = cmd_hset =>
          \A key \in K, field \in F, value \in V :
              \/ Other(key, "HASH")
              \/ /\ reply' = Bit(~Has(Map(key), field))
                 /\ HashBecomes(key, Put(Map(key), field, value))
                 /\ HGetReply(key, field)' = Bulk(value)
              \/ ~HSet(key, field, value)
    /\ cmd' = cmd_hexists =>
          \A key \in K, field \in F :
              \/ Other(key, "HASH")
              \/ /\ reply' = Bit(Has(Map(key), field))
                 /\ store' = store
              \/ ~HExists(key, field)
    /\ cmd' = cmd_hdel =>
          \A key \in K, field \in F :
              \/ Other(key, "HASH")
              \/ /\ reply' = Bit(Has(Map(key), field))
                 /\ HashBecomes(key, Erase(Map(key), field))
              \/ ~HDel(key, field)
    /\ cmd' = cmd_hlen =>
          \A key \in K :
              \/ Other(key, "HASH")
              \/ /\ reply' = Integer(to_string(Cardinality(DOMAIN Map(key))))
                 /\ store' = store
              \/ ~HLen(key)

\* C21: on a key that is absent or holds a hash, HSET k f v replies 1 exactly
\* when f was not a field and 0 when it overwrote one, a following HGET k f
\* replies v, HEXISTS k f replies 1 exactly when f is a field, HDEL k f replies
\* 1 exactly when f was a field and removes it, and HLEN k replies the number
\* of fields, 0 for an absent key.
C21_HashIsAFieldMap ==
    [][HashIsAFieldMap(ValueKeys, Fields, SentinelValues)]_vars

\* what the code does provide: the same for values that are not a sentinel text
HashIsAFieldMapUnlessSentinel ==
    [][HashIsAFieldMap(ValueKeys, CollectionFields, CollectionValues)]_vars

-----------------------------------------------------------------------------
(* Properties of the transport *)

IsPrefix(a, b) == Len(a) <= Len(b) /\ SubSeq(b, 1, Len(a)) = a

\* the bytes the client of connection c has sent so far
SentBytes(c) == Join(SubSeq(Script[c], 1, sockets[c].sent))

\* the complete lines of `text`, in order, without their line ends
RECURSIVE CompleteLines(_, _)
CompleteLines(text, line) ==
    IF text = <<>> THEN <<>>
    ELSE IF Len(text) >= 2 /\ text[1] = "\r" /\ text[2] = "\n"
    THEN <<line>> \o CompleteLines(SubSeq(text, 3, Len(text)), <<>>)
    ELSE CompleteLines(Tail(text), Append(line, text[1]))

\* the step is the whole of one command of the connection main is handling:
\* one more command handed, its response written to that connection, nothing
\* handed or written on any other connection
OneCommand ==
    /\ fd # 0
    /\ fd' = fd
    /\ \A c \in Conns \ {fd} : handed'[c] = handed[c] /\ written'[c] = written[c]
    /\ \/ /\ Len(handed'[fd]) = Len(handed[fd]) + 1
          /\ IsPrefix(handed[fd], handed'[fd])
          /\ written'[fd] = Append(written[fd], reply')
          /\ reply' # <<>>
       \/ /\ handed' = handed
          /\ written' = written
          /\ UNCHANGED <<store, cache, bloom_filter>>

\* C22: commands are executed one at a time across all connections: store,
\* tracker, filter and responses change only in a step that is the whole of
\* one command, response included, and on each connection the commands are
\* handled and answered in the order their lines arrived.
C22_OneCommandAtATime ==
    [][/\ (/\ pc = "serving"
           /\ <<store, cache, bloom_filter, cmd, reply, handed, written>>
                # <<store, cache, bloom_filter, cmd, reply, handed, written>>')
          => OneCommand
       /\ \A c \in Conns :
             /\ IsPrefix(handed'[c], CompleteLines(SentBytes(c)', <<>>))
             /\ Len(written'[c]) = Len(handed'[c])]_vars

\* both connections have been answered in full, and the GET of connection 1
\* came after the DEL of connection 2
C22_Witness ==
    /\ Len(written[1]) = 2
    /\ Len(written[2]) = 2
    /\ written[1][2] = NullBulk
    /\ handed[1] = CompleteLines(Stream[1], <<>>)

\* main waits in epoll_wait and nothing is left for it to do
Idle ==
    /\ pc = "serving"
    /\ fd = 0
    /\ \A c \in Conns : sockets[c].phase # "pending" /\ ~sockets[c].ready

\* every complete line that connection c has sent was handed to
\* process_command, in order, and has its response
AllHanded(c) ==
    /\ handed[c] = CompleteLines(SentBytes(c), <<>>)
    /\ Len(written[c]) = Len(handed[c])

\* C23: once main has nothing left to do, every complete request line received
\* on a connection has been handed to process_command in arrival order and
\* has a response, also when the line came in pieces and when the end of the
\* client's stream was seen in the same readiness event as its bytes.
C23_EveryLineIsHanded == Idle => \A c \in Conns : AllHanded(c)

\* what the code does provide: the same for the connections whose bytes were
\* all read before the end of the stream was seen
EveryLineIsHandedUnlessEnded ==
    Idle => \A c \in Conns : sockets[c].phase = "open" /\ ~sockets[c].eof => AllHanded(c)

-----------------------------------------------------------------------------
(* Properties of the recency tracker *)

\* how many entries the tracker holds for key
Entries(key) == Cardinality({i \in 1..Len(cache) : cache[i] = key})

\* C24: every live key (each was touched by the command or the load that
\* created it) has exactly one entry in the recency tracker, for any number
\* of live keys.
C24_LiveKeyTrackedOnce == \A key \in Live : Entries(key) = 1

\* what the code does provide: no key has more than one entry
KeyTrackedAtMostOnce == \A key \in Keys : Entries(key) <= 1

\* C25: every key the recency tracker holds is a live key of the store: DEL,
\* the emptying of a collection and the tracker's own overflow take the key
\* out of the tracker, and no read command enters a key that the store lacks.
C25_TrackedKeyIsLive == Range(cache) \subseteq Live

\* an HDEL emptied a hash while more keys are live than the tracker holds:
\* the hash left the store and the tracker
C25_Witness ==
    /\ cmd = cmd_hdel
    /\ reply = Bit(TRUE)
    /\ \A key \in Live : store[key].type # "HASH"
    /\ Len(cache) < Cardinality(Live)
    /\ cache # <<>>

\* the step is a command of the key-space workload on key
Addresses(key) ==
    CASE cmd' = cmd_set       -> \E value \in Values : Set(key, value)
      [] cmd' = cmd_get       -> Get(key)
      [] cmd' = cmd_type      -> Type(key)
      [] cmd' = cmd_lpush     -> \E value \in Values : LPush(key, value)
      [] cmd' = cmd_rpush     -> \E value \in Values : RPush(key, value)
      [] cmd' = cmd_lpop      -> LPop(key)
      [] cmd' = cmd_rpop      -> RPop(key)
      [] cmd' = cmd_lindex    -> \E index \in Indexes : LIndex(key, index)
      [] cmd' = cmd_llen      -> LLen(key)
      [] cmd' = cmd_lrange    -> \E start \in Indexes, end \in Indexes : LRange(key, start, end)
      [] cmd' = cmd_sadd      -> \E value \in Values : SAdd(key, value)
      [] cmd' = cmd_sismember -> \E value \in Values : SIsMember(key, value)
      [] cmd' = cmd_srem      -> \E value \in Values : SRem(key, value)
      [] cmd' = cmd_scard     -> SCard(key)
      [] cmd' = cmd_smembers  -> SMembers(key)
      [] cmd' = cmd_hset      -> \E field \in Fields, value \in Values : HSet(key, field, value)
      [] cmd' = cmd_hget      -> \E field \in Fields : HGet(key, field)
      [] cmd' = cmd_hexists   -> \E field \in Fields : HExists(key, field)
      [] cmd' = cmd_hdel      -> \E field \in Fields : HDel(key, field)
      [] cmd' = cmd_hlen      -> HLen(key)
      [] cmd' = cmd_hkeys     -> HKeys(key)
      [] cmd' = cmd_hvals     -> HVals(key)
      [] cmd' = cmd_hgetall   -> HGetAll(key)
      [] OTHER -> FALSE

\* C26: after a command that reads or writes key k (SET, GET, TYPE, every
\* list, set and hash command that is not refused for the kind) and leaves k
\* live, k is at the head of the recency tracker.
C26_TouchedKeyLeads ==
    [][\A key \in Keys :
          \/ ~Has(store', key)
          \/ reply' = WRONGTYPE_REPLY
          \/ cache' # <<>> /\ Head(cache') = key
          \/ ~Addresses(key)]_vars

\* what the code does provide: the same for every command but TYPE
TouchedKeyLeadsUnlessType ==
    [][\A key \in Keys :
          \/ ~Has(store', key)
          \/ reply' = WRONGTYPE_REPLY
          \/ cache' # <<>> /\ Head(cache') = key
          \/ cmd' = cmd_type
          \/ ~Addresses(key)]_vars

-----------------------------------------------------------------------------
(* Properties of the tracker bound in the code as it is *)

\* C27: the recency tracker bounds itself inside access: it never holds more
\* than CACHE_SIZE keys, so the overflow test of evict_if_needed (tracker size
\* above CACHE_SIZE) is false after the access of any key in any reachable
\* state, and a key the tracker drops stays in the store, unchanged, without
\* a tracker entry.
C27_TrackerBoundsItself ==
    [][/\ Len(cache') <= CACHE_SIZE
       /\ \A key \in Keys :
             ~(Len(access(cache', key)) > CACHE_SIZE)
       /\ \A key \in Keys :
             (/\ Len(cache) = CACHE_SIZE
              /\ key = get_oldest(cache)
              /\ Len(cache') = CACHE_SIZE
              /\ ~contains(cache', key))
             => /\ Has(store', key)
                /\ store'[key] = store[key]]_vars

\* a key is live in the store and the full tracker has no entry for it
C27_Witness ==
    /\ Len(cache) = CACHE_SIZE
    /\ \E key \in Live : ~contains(cache, key)
    /\ cmd = cmd_set

-----------------------------------------------------------------------------
(* Properties of the filter as an admission test *)

\* what GET key and TYPE key answer from the store alone
GetFromStore(key) ==
    EncodeBulk(IF ~Has(store, key) THEN NULL_TEXT
               ELSE IF store[key].type = "STRING" THEN store[key].value
               ELSE WRONGTYPE_MSG)

TypeFromStore(key) ==
    IF ~Has(store, key) THEN NONE_REPLY
    ELSE SimpleString(CASE store[key].type = "STRING" -> <<"s","t","r","i","n","g">>
                        [] store[key].type = "LIST" -> <<"l","i","s","t">>
                        [] store[key].type = "SET" -> <<"s","e","t">>
                        [] store[key].type = "HASH" -> <<"h","a","s","h">>)

\* C28: every live key has its filter bit set, so GET and TYPE answer for
\* every key, in every reachable state, what they would answer with the
\* filter check removed: absent exactly when the store does not hold the key,
\* whatever false positives the filter has.
C28_FilterChangesNoAnswer ==
    /\ \A key \in Live : bloom_contains(bloom_filter, key)
    /\ \A key \in Keys :
          /\ GetReply(key) = GetFromStore(key)
          /\ TypeReply(key) = TypeFromStore(key)
          /\ TypeReply(key) = NONE_REPLY <=> ~Has(store, key)

\* a false positive after a load: k2 is not in the store, its bit is set
\* because k1 shares it, and a key whose bit is clear exists
C28_Witness ==
    /\ starts = 2
    /\ pc = "serving"
    /\ Has(store, K1)
    /\ ~Has(store, K2)
    /\ bloom_contains(bloom_filter, K2)
    /\ ~bloom_contains(bloom_filter, K3)

-----------------------------------------------------------------------------
(* Properties of the guard of the key space *)

\* how each operation of BlinkDB takes rw_lock: std::unique_lock in the
\* operations listed first, std::shared_lock in the others
rw_lock(name) ==
    IF name \in {cmd_set, cmd_del, cmd_lpush, cmd_rpush, cmd_lpop, cmd_rpop,
                 cmd_sadd, cmd_srem, cmd_hset, cmd_hdel}
    THEN "unique"
    ELSE IF name \in {cmd_get, cmd_type, cmd_lindex, cmd_llen, cmd_lrange,
                      cmd_sismember, cmd_scard, cmd_smembers, cmd_hget,
                      cmd_hexists, cmd_hlen, cmd_hkeys, cmd_hvals,
                      cmd_hgetall}
    THEN "shared"
    ELSE "none"

\* the read commands whose operation calls cache.access
ReadCommands ==
    {cmd_get, cmd_lindex, cmd_llen, cmd_lrange, cmd_sismember, cmd_scard,
     cmd_smembers, cmd_hget, cmd_hexists, cmd_hlen, cmd_hkeys, cmd_hvals,
     cmd_hgetall}

\* C29: every command that modifies the store, the recency tracker or the
\* filter, the tracker touches of the read commands included, runs its
\* operation with rw_lock held exclusively.
C29_ModificationsAreExclusive ==
    [][(/\ pc = "serving"
        /\ pc' = "serving"
        /\ \/ store' # store
           \/ cache' # cache
           \/ bloom_filter' # bloom_filter)
       => rw_lock(cmd') = "unique"]_vars

\* what does hold: the store and the filter change only with rw_lock held
\* exclusively, and the only modification made with it held shared is the
\* tracker touch of a read command
StoreModificationsAreExclusive ==
    [][(pc = "serving" /\ pc' = "serving")
       => /\ (store' # store \/ bloom_filter' # bloom_filter)
                => rw_lock(cmd') = "unique"
          /\ (cache' # cache /\ rw_lock(cmd') # "unique")
                => /\ cmd' \in ReadCommands
                   /\ rw_lock(cmd') = "shared"
                   /\ \E key \in Live : cache' = access(cache, key)]_vars

-----------------------------------------------------------------------------
(* Properties of the start of the server *)

\* no command has been handed to process_command yet
NothingHanded == \A c \in Conns : handed[c] = <<>>

\* C30: the load runs once, in the constructor of the database, before the
\* event loop: until it has returned no connection is accepted and no command
\* is processed; after it the server never loads again; and until the first
\* command is processed the store holds exactly the whole content of the
\* persistence file.
C30_LoadOnceBeforeServing ==
    /\ pc = "start"
          => /\ starts = 0
             /\ store = <<>>
             /\ cmd = <<>>
             /\ client_buffers = <<>>
             /\ NothingHanded
             /\ \A c \in Conns : sockets[c].phase \in {"none", "pending"}
    /\ pc # "start"
          => /\ pc = "serving"
             /\ starts = 1
    /\ (pc = "serving" /\ NothingHanded)
          => /\ store = load_from_disk(persistence_file).value.store
             /\ persistence_file.exists
                   => /\ Has(store, K1) /\ store[K1].type = "STRING"
                      /\ Has(store, K2) /\ store[K2].type = "LIST"

\* the first connection is accepted after the load of a two-line file and
\* has its first bytes waiting; no command has been processed
C30_Witness ==
    /\ pc = "serving"
    /\ starts = 1
    /\ persistence_file.exists
    /\ Has(store, K1)
    /\ Has(store, K2)
    /\ NothingHanded
    /\ \E c \in Conns : sockets[c].phase = "open" /\ sockets[c].ready

-----------------------------------------------------------------------------
(* Properties of the end of the server *)

\* main under the scheduling of its single thread: the event loop, once
\* running, takes a step whenever it has an event or a line to work on
EventLoop ==
    \E c \in Conns : Accept(c) \/ ClientData(c) \/ Command(c) \/ Return(c)

SpecEventLoop == SpecTransport /\ WF_vars(EventLoop)

\* C31: from the running event loop the server reaches a shutdown state in
\* which the destructor of the database has written the whole store to the
\* persistence file, so that data written by commands is in the file at the
\* end of the process.
C31_SaveAtShutdown ==
    (pc = "serving" /\ store # <<>>)
       ~> (pc = "stopped" /\ persistence_file \in save_to_disk(store))

\* what does hold: `while (true)` has no exit, so no step of main reaches the
\* destructor and the persistence file is never written
EventLoopNeverSaves ==
    [][/\ persistence_file' = persistence_file
       /\ pc' # "stopped"]_vars

-----------------------------------------------------------------------------
(* Properties of the end of the load *)

(* The length workload: the first process starts on a file of two well-formed *)
(* lines with, between them, a collection line whose length prefix is zero,   *)
(* negative or larger than the data.                                          *)
ZeroLen      == <<"L", " ">> \o K3 \o <<" ", "L", "0", ":", ",">>
MinusOneLen  == <<"L", " ">> \o K3 \o <<" ", "L", "-", "1", ":">> \o V1 \o <<",">>
MinusTwoLen  == <<"L", " ">> \o K3 \o <<" ", "L", "-", "2", ":">> \o V1 \o <<",">>
BackListLen  == <<"L", " ">> \o K3 \o <<" ", "L", "-", "4", ":">>
BackSetLen   == <<"E", " ">> \o K3 \o <<" ", "S", "-", "4", ":">>
LongListLen  == <<"L", " ">> \o K3 \o <<" ", "L", "9", "9", ":">> \o V1 \o <<",">>
LongSetLen   == <<"E", " ">> \o K3 \o <<" ", "S", "9", "9", ":">> \o V1 \o <<",">>

\* the lines whose decoder advances and stops, and the others
AdvancingLines == {ZeroLen, MinusOneLen, LongListLen, LongSetLen}
LengthLines == AdvancingLines \cup {MinusTwoLen, BackListLen, BackSetLen}

LengthFiles ==
    {[exists |-> TRUE, lines |-> <<GoodString, line, GoodList>>] :
       line \in LengthLines}

InitLengths == InitStart({HashCollision}, LengthFiles)
NextLengths ==
    \/ Writes(ValueKeys, Values, Fields, ShortLen)
    \/ Startup
    \/ Shutdown
SpecLengths == InitLengths /\ [][NextLengths]_vars

\* C32: the load of every file ends, whatever length prefixes its collection
\* lines carry, and the process that started it goes on to serve commands.
C32_LoadTerminates ==
    [][starts' = starts + 1 => pc' = "serving"]_vars

\* what does hold: a first load whose middle line has a decoder that advances
\* (length zero, minus one, or larger than the data) ends, serves, and holds
\* the keys of all three lines
AdvancingLoadTerminates ==
    [][(/\ starts = 0
        /\ starts' = 1
        /\ persistence_file.lines[2] \in AdvancingLines)
       => /\ pc' = "serving"
          /\ DOMAIN store' = {K1, K2, K3}]_vars

\* the middle line sends its decoder back to a position it has been at
BackwardLoadHangs ==
    [][(/\ starts = 0
        /\ starts' = 1
        /\ persistence_file.lines[2] \in {BackListLen, BackSetLen})
       => /\ pc' = "hung"
          /\ DOMAIN store' = {K1}]_vars

====
